---- MODULE Spec2Model ----
(***************************************************************************)
(* ProctoringSystem (src/unnamed/part_003): the violation engine, its      *)
(* event-screenshot cooldown, the camera monitor and the session           *)
(* lifecycle, as a state machine.  One turn of the browser event loop is   *)
(* one step: an async handler runs from its dispatch to its first pending  *)
(* await, and from one settled await to the next.                          *)
(***************************************************************************)
EXTENDS Integers, Sequences, FiniteSets, TLC

\* ---- program constants (constructor, part_003:14-35) ----
maxWarnings == 3
maxFullscreenExits == 3
maxFullscreenRetries == 5
eventScreenshotCooldown == 2000

\* ---- bounds of the model ----
MaxEvents == 3      \* handler invocations that reach an await, per session
MaxTicks == 2       \* clock advances
TickMs == 1000      \* one clock advance, in ms
StartTime == 5000   \* Date.now() at page load (a value >= the cooldown)
MaxCleanups == 2    \* calls of cleanup()
MaxActive == 2      \* handlers suspended at an await at the same time
MaxSelections == 5  \* selection attempts counted in a session
MaxDetections == 3  \* times the camera is found off
MaxAwayMs == 45000  \* longest time away from the page, in ms
MaxKeyEvents == 2    \* lockdown events handled in a behaviour of KeySpec
MaxEarlier == 3      \* attempts of one kind made before the events looked at
MaxOvershoot == 3    \* steps past a limit that an unclamped scale is followed
MaxRegions == 2      \* hotspot regions of a viewer
MaxCoord == 2        \* largest image coordinate of a click

VARIABLES
    \* fields of ProctoringSystem
    videoStream, permissionsGranted, cameraDisabledWarningShown,
    snapshotTimer, streamMonitorTimer,
    warningCount, fullscreenExitCount, fullscreenRetryAttempts, isDisqualified,
    lastEventScreenshot, windowHasFocus, windowBlurTime,
    devToolsWarningShown,
    copyAttempts, pasteAttempts, selectAllAttempts, selectionAttempts,
    rightClickCount,
    checks,
    \* the browser
    event,
    now, docFullscreen, exitPending, docHidden, docFocused, pointerEvents,
    timers,
    trackState, trackEnabled, listening, sinksUp, navigated,
    \* execution
    initPc, tasks, nTasks,
    \* what an observer of the page and of the sinks has seen
    logCount, trig, captures, uploads, dropped, posts, gets,
    autoSubmitStarts, disqBy,
    cameraWarnings, cameraDetections, dialogs, cleanups,
    \* the DICOMViewer of the question page
    viewer

camVars == <<videoStream, permissionsGranted, cameraDisabledWarningShown,
             trackState, trackEnabled, cameraWarnings, cameraDetections>>
timerVars == <<snapshotTimer, streamMonitorTimer, timers>>
initVars == <<initPc, checks, dialogs, listening, cleanups>>
fsVars == <<fullscreenExitCount, fullscreenRetryAttempts, isDisqualified,
            pointerEvents, disqBy, autoSubmitStarts, posts, gets>>
counterVars == <<warningCount, copyAttempts, pasteAttempts, selectAllAttempts,
                 selectionAttempts, rightClickCount>>
focusVars == <<windowHasFocus, windowBlurTime, docHidden, docFocused>>
lockVars == <<counterVars, focusVars, devToolsWarningShown, event>>
capVars == <<lastEventScreenshot, trig, captures, uploads, dropped>>
envVars == <<now, docFullscreen, exitPending, sinksUp, navigated>>
taskVars == <<tasks, nTasks, logCount>>

vars == <<camVars, timerVars, initVars, viewer, fsVars, lockVars, capVars,
          envVars, taskVars>>

\* ---- vocabulary ----
Categories == {"fullscreen_exit", "tab_switch", "window_blur",
               "right_click_violation",
               "copy_attempt", "paste_attempt", "select_all_attempt",
               "text_selection_attempt", "devtools_violation"}

\* the snapshot types of the periodic captures (part_003:1578, 1625)
SnapshotTypes == {"webcam", "screen"}

LogTypes == {"screenshot_skipped", "screenshot_failed",
             "system_check_completed", "camera_access_granted",
             "camera_access_denied", "camera_permission_denied", "ip_logged",
             "proctoring_initialized", "camera_disabled", "fullscreen_exit",
             "exam_disqualified", "fullscreen_restore_failed",
             "event_screenshot_failed", "tab_switched", "tab_returned",
             "right_click_blocked", "devtools_blocked", "copy_blocked",
             "paste_blocked", "select_all_blocked", "print_blocked",
             "copy_event_blocked", "paste_event_blocked",
             "text_selection_blocked", "persistent_selection_attempts",
             "devtools_opened_during_exam", "window_blur",
             "window_focus_returned", "save_blocked", "cut_event_blocked",
             "drag_blocked", "system_check_failed"}

\* away and severity are the metadata of a logged return; count is the
\* exit_count of a logged fullscreen exit; tries counts the calls of
\* attemptFullscreen made by one restoreFullscreenWithRetry and wait is its
\* latest sleep before a retry, in ms
NoTask == [kind |-> "none", pc |-> "none", cat |-> "none", ord |-> 0,
           log |-> "none", away |-> -1, severity |-> "none", count |-> 0,
           tries |-> 0, wait |-> 0]

TaskIds == 1..MaxEvents

\* the keyboard, clipboard, selection or context-menu event delivered in this
\* turn of the event loop: its name, whether its target is an INPUT or a
\* TEXTAREA, and whether its handler called preventDefault before it returned
\* to the browser (a call made after an await comes too late)
NoEvent == [name |-> "none", inInput |-> FALSE, prevented |-> FALSE]

Delivered(name, inInput, prevented) ==
    [name |-> name, inInput |-> inInput, prevented |-> prevented]

\* what is seen of the calls of captureEventScreenshot for one category: how
\* many there were, when the latest was, and the time between the latest two
NoTrigger == [n |-> 0, at |-> 0, gap |-> -1]

Triggered(tr, t) == [n |-> tr.n + 1, at |-> t,
                     gap |-> IF tr.n = 0 THEN -1 ELSE t - tr.at]

\* a counter that starts again when it reaches the warning threshold
IncrementWrapped(count) == (count + 1) % maxWarnings

\* this.<counter>++ of the handlers (part_003:888, 972, 1190, 1232, 1257,
\* 1294, 1314, 1334, 1380, 1408)
Increment(count) == count + 1

\* ---- logEvent (part_003:1726-1746): the request is issued by the call ----
Logged(lc, type) == [lc EXCEPT ![type] = @ + 1]

\* ---- captureEventScreenshot, the cooldown (part_003:1466-1474) ----
LastCapture(les, cat) == les[cat]

\* a cooldown that still holds when exactly the cooldown has passed
CooldownInclusive(les, cat, t) ==
    t - LastCapture(les, cat) <= eventScreenshotCooldown

CooldownActive(les, cat, t) ==
    t - LastCapture(les, cat) < eventScreenshotCooldown

\* one time of the last capture for all categories (the single
\* lastEventScreenshotTime of static/js/proctoring.js)
RecordCaptureShared(les, cat, t) == [c \in DOMAIN les |-> t]

RecordCapture(les, cat, t) == [les EXCEPT ![cat] = t]


\* ---- DICOMViewer (part_000, part_001, part_002) ----
\* the scale of the viewport is kept in tenths, the step of the wheel: the
\* limits 0.1 and 10 of Math.max(0.1, Math.min(10, ...)) are 1 and 100
MinScale == 1
MaxScale == 100
WheelStep == 1

\* the four wheel listeners: setupInteractions of part_000,
\* setupCornerstoneInteractions and setupNativeInteractions of part_001, and
\* setupInteractions of part_002
Viewers == {"part_000", "part_001_cornerstone", "part_001_native", "part_002"}

\* no viewer on the page
NoViewer == [impl |-> "none", scale |-> 0, hotspotRegions |-> <<>>,
             clicked |-> <<>>, hit |-> 0]

Min(a, b) == IF a < b THEN a ELSE b
Max(a, b) == IF a > b THEN a ELSE b

\* event.deltaY < 0 ? 0.1 : -0.1
WheelDelta(deltaY) == IF deltaY < 0 THEN WheelStep ELSE -WheelStep

\* the scale after a wheel event: Math.max(0.1, Math.min(10, scale + delta))
\* (part_000:143, part_001:431, part_001:500); viewport.scale += delta in
\* part_002 (part_002:110)
Zoomed(impl, scale, delta) ==
    IF impl = "part_002" THEN scale + delta
    ELSE Max(MinScale, Min(MaxScale, scale + delta))

\* a test with exclusive far edges
IsPointInHotspotExclusive(point, hotspot) ==
    /\ point[1] >= hotspot.x /\ point[1] < hotspot.x + hotspot.width
    /\ point[2] >= hotspot.y /\ point[2] < hotspot.y + hotspot.height

\* isPointInHotspot (part_001:1206-1214), the test written out in
\* checkHotspotHit (part_000:227-230, part_001:598-601) and checkHotspot
\* (part_002:198-201)
IsPointInHotspot(point, hotspot) ==
    /\ point[1] >= hotspot.x /\ point[1] <= hotspot.x + hotspot.width
    /\ point[2] >= hotspot.y /\ point[2] <= hotspot.y + hotspot.height

\* the loop of checkHotspotHit from region i on: the index of the region it
\* returns, 0 for null
RECURSIVE HitFrom(_, _, _)
HitFrom(regions, coords, i) ==
    IF i > Len(regions) THEN 0
    ELSE IF IsPointInHotspot(coords, regions[i]) THEN i
    ELSE HitFrom(regions, coords, i + 1)

\* checkHotspotHit (part_000:225-235, part_001:596-606, part_001:1195-1203),
\* checkHotspot (part_002:196-207)
CheckHotspotHit(regions, coords) == HitFrom(regions, coords, 1)

\* ---- constructor (part_003:2-59) ----
\* the ProctoringSystem as the constructor leaves it
Constructed ==
    /\ videoStream = "none" /\ permissionsGranted = FALSE
    /\ cameraDisabledWarningShown = FALSE
    /\ snapshotTimer = "null" /\ streamMonitorTimer = "null"
    /\ warningCount = 0 /\ fullscreenExitCount = 0
    /\ fullscreenRetryAttempts = 0 /\ isDisqualified = FALSE
    /\ lastEventScreenshot = [c \in Categories |-> 0]
    /\ windowHasFocus = TRUE /\ windowBlurTime = 0
    /\ devToolsWarningShown = FALSE /\ event = NoEvent
    /\ copyAttempts = 0 /\ pasteAttempts = 0 /\ selectAllAttempts = 0
    /\ selectionAttempts = 0 /\ rightClickCount = 0
    /\ checks = [html2canvas |-> FALSE, screenshotTest |-> FALSE,
                 adBlocker |-> FALSE, uploadEndpoint |-> FALSE,
                 devTools |-> FALSE]
    /\ now = StartTime /\ docFullscreen = FALSE /\ exitPending = FALSE
    /\ docHidden = FALSE /\ docFocused = TRUE
    /\ pointerEvents = "auto" /\ timers = {}
    /\ trackState = "none" /\ trackEnabled = FALSE /\ listening = FALSE
    /\ sinksUp = TRUE /\ navigated = FALSE
    /\ initPc = "new" /\ tasks = [i \in TaskIds |-> NoTask] /\ nTasks = 0
    /\ logCount = [t \in LogTypes |-> 0]
    /\ trig = [c \in Categories |-> NoTrigger]
    /\ captures = [c \in Categories \cup SnapshotTypes |-> 0]
    /\ uploads = [c \in Categories \cup SnapshotTypes |-> 0]
    /\ dropped = [c \in Categories \cup SnapshotTypes |-> 0]
    /\ posts = 0 /\ gets = 0 /\ autoSubmitStarts = 0 /\ disqBy = 0
    /\ cameraWarnings = 0 /\ cameraDetections = 0
    /\ dialogs = {} /\ cleanups = 0

\* no DICOMViewer has been made
Init == Constructed /\ viewer = NoViewer

\* ---- steps every handler shares ----
Suspended == {j \in TaskIds : tasks[j].pc \notin {"none", "done", "thrown"}}

\* an event whose handler reaches an await takes a handler slot
CanDispatch == nTasks < MaxEvents /\ Cardinality(Suspended) < MaxActive

Finished(t) == [NoTask EXCEPT !.kind = t.kind, !.pc = "done"]

\* this.fullscreenExitCount as the fullscreen handler reads it when it logs:
\* its own count when it logs in the turn of its increment, the shared
\* counter when it logs after an await
CountAtLog(t) ==
    IF t.ord > fullscreenExitCount THEN t.ord ELSE fullscreenExitCount

\* severity of fullscreen_exit (part_003:984)
ExitSeverity(count) ==
    IF count >= maxFullscreenExits THEN "critical" ELSE "warning"

\* rightClickCount as the contextmenu handler reads it when it logs, in the
\* turn of its increment or after the awaited capture
RightClicksAtLog(t) ==
    IF t.ord > rightClickCount THEN t.ord ELSE rightClickCount

\* a severity that warns from the fourth right-click on
RightClickSeverityLate(count) == IF count > 3 THEN "warning" ELSE "info"

\* severity of right_click_blocked (part_003:1269)
RightClickSeverity(count) == IF count >= 3 THEN "warning" ELSE "info"

\* the metadata of the handler's log, where the model keeps it
LogMetadata(t) ==
    IF t.kind = "fullscreen"
    THEN [t EXCEPT !.severity = ExitSeverity(CountAtLog(t)),
                   !.count = CountAtLog(t)]
    ELSE IF t.kind = "contextmenu"
    THEN [t EXCEPT !.severity = RightClickSeverity(RightClicksAtLog(t))]
    ELSE IF t.kind = "devtools"
    THEN [t EXCEPT !.severity = "critical"]
    ELSE t

\* the handler's own logEvent call: the fetch is issued, the handler awaits it
CallLog(i, t) ==
    /\ logCount' = Logged(logCount, t.log)
    /\ tasks' = [tasks EXCEPT ![i] = [LogMetadata(t) EXCEPT !.pc = "log"]]

\* what follows the return of captureEventScreenshot in the calling handler:
\* the developer-tools poll has logged before it captures (part_003:634-648),
\* every other handler logs next
AfterCapture(i, t) ==
    IF t.kind = "devtools"
    THEN /\ tasks' = [tasks EXCEPT ![i] = Finished(t)]
         /\ UNCHANGED logCount
    ELSE CallLog(i, t)

\* captureEventScreenshot up to its first await (part_003:1460-1477)
CallCapture(i, t, cat) ==
    /\ trig' = [trig EXCEPT ![cat] = Triggered(@, now)]
    /\ UNCHANGED <<uploads, dropped>>
    /\ IF CooldownActive(lastEventScreenshot, cat, now)
       THEN /\ UNCHANGED <<lastEventScreenshot, captures>>
            /\ AfterCapture(i, t)
       ELSE /\ lastEventScreenshot' =
                   RecordCapture(lastEventScreenshot, cat, now)
            /\ captures' = [captures EXCEPT ![cat] = @ + 1]
            /\ tasks' = [tasks EXCEPT ![i] =
                            [t EXCEPT !.pc = "cap_render", !.cat = cat]]
            /\ UNCHANGED logCount

\* an exception nobody catches ends the handler that awaits the call
Thrown(t) == [t EXCEPT !.pc = "thrown"]

\* the catch of captureEventScreenshot (part_003:1508-1516): a failed render
\* is caught and reported with logEvent('event_screenshot_failed')
RenderFailed(t) == [t EXCEPT !.pc = "cap_faillog"]

\* the catch of uploadEventSnapshot (part_003:1541-1543): a rejected fetch
\* and the Error thrown for a non-OK status are caught, the capture returns
UploadFailed(t) == t

\* the catch of logEvent (part_003:1743-1745): a rejected fetch is caught
LogFailed(t) == t

Alive == ~navigated
SinkAnswers == Alive /\ sinksUp

\* settle delay, html2canvas and toBlob (part_003:1477-1502)
CaptureRendered(i, outcome) ==
    /\ Alive /\ tasks[i].pc = "cap_render"
    /\ LET t == tasks[i] IN
       CASE outcome = "ok" ->
              \* uploadEventSnapshot issues its fetch (part_003:1504, 1530)
              /\ uploads' = [uploads EXCEPT ![t.cat] = @ + 1]
              /\ tasks' = [tasks EXCEPT ![i].pc = "cap_upload"]
              /\ UNCHANGED <<logCount, dropped>>
         [] outcome = "throw" ->
              LET t2 == RenderFailed(t) IN
              /\ tasks' = [tasks EXCEPT ![i] = t2]
              /\ logCount' = IF t2.pc = "cap_faillog"
                             THEN Logged(logCount, "event_screenshot_failed")
                             ELSE logCount
              /\ dropped' = [dropped EXCEPT ![t.cat] = @ + 1]
              /\ UNCHANGED uploads
         [] outcome = "noblob" ->
              /\ AfterCapture(i, t)
              /\ dropped' = [dropped EXCEPT ![t.cat] = @ + 1]
              /\ UNCHANGED uploads
    /\ event' = NoEvent
    /\ UNCHANGED <<camVars, timerVars, initVars, viewer, fsVars, counterVars,
                   focusVars, devToolsWarningShown,
                   lastEventScreenshot, trig, captures, envVars, nTasks>>

\* a handler resumes after an awaited call that may have failed inside
Resumed(i, t2) ==
    IF t2.pc = "thrown"
    THEN /\ tasks' = [tasks EXCEPT ![i] = t2]
         /\ UNCHANGED logCount
    ELSE AfterCapture(i, t2)

\* the upload fetch settles (part_003:1529-1543): ok, non-OK status or rejection
UploadSettled(i, outcome) ==
    /\ SinkAnswers /\ tasks[i].pc = "cap_upload"
    /\ Resumed(i, IF outcome = "ok" THEN tasks[i] ELSE UploadFailed(tasks[i]))
    /\ UNCHANGED <<camVars, timerVars, initVars, viewer, fsVars, lockVars, capVars,
                   envVars, nTasks>>

\* the event_screenshot_failed log settles (part_003:1511-1515)
FailLogSettled(i, outcome) ==
    /\ SinkAnswers /\ tasks[i].pc = "cap_faillog"
    /\ Resumed(i, IF outcome = "ok" THEN tasks[i] ELSE LogFailed(tasks[i]))
    /\ UNCHANGED <<camVars, timerVars, initVars, viewer, fsVars, lockVars, capVars,
                   envVars, nTasks>>

\* ---- fullscreenChangeHandler (part_003:954-1018) ----
\* the document leaves fullscreen (Esc, or a pending exitFullscreen request
\* completes) and the change event runs the handler up to its first await
\* a guard that looks at the fullscreen state only
ExitProcessedAlways(disqualified) == TRUE

\* if (!isFullscreen && !this.isDisqualified) (part_003:971), for an exit
ExitProcessed(disqualified) == ~disqualified

FullscreenExit ==
    /\ Alive /\ docFullscreen
    /\ docFullscreen' = FALSE /\ exitPending' = FALSE
    /\ IF listening /\ ExitProcessed(isDisqualified)
       THEN /\ CanDispatch
            /\ fullscreenExitCount' = Increment(fullscreenExitCount)
            /\ fullscreenRetryAttempts' = 0
            /\ nTasks' = nTasks + 1
            /\ CallCapture(nTasks + 1,
                   [NoTask EXCEPT !.kind = "fullscreen",
                                  !.ord = Increment(fullscreenExitCount),
                                  !.log = "fullscreen_exit"],
                   "fullscreen_exit")
       ELSE UNCHANGED <<fullscreenExitCount, fullscreenRetryAttempts, capVars,
                        taskVars>>
    /\ event' = NoEvent
    /\ UNCHANGED <<camVars, timerVars, initVars, viewer, isDisqualified, pointerEvents,
                   disqBy, autoSubmitStarts, posts, gets, counterVars,
                   focusVars, devToolsWarningShown, now, sinksUp, navigated>>

\* the document enters fullscreen (enterFullscreen of initialize, or the page
\* on a user gesture); the handler sees isFullscreen and does nothing
FullscreenEnter ==
    /\ Alive /\ listening /\ ~docFullscreen
    /\ docFullscreen' = TRUE
    /\ event' = NoEvent
    /\ UNCHANGED <<camVars, timerVars, initVars, viewer, fsVars, counterVars,
                   focusVars, devToolsWarningShown, capVars,
                   now, exitPending, sinksUp, navigated, taskVars>>

\* a threshold test that passes one exit early
ThresholdReachedEarly(count) == count >= maxFullscreenExits - 1

\* the threshold test after the handler's log has settled (part_003:989-1016)
ThresholdReached(count) == count >= maxFullscreenExits

\* the handler resumes after await logEvent('fullscreen_exit'): it disqualifies
\* and calls autoSubmitTestDisqualified up to its first await
\* (part_003:1093-1102), or calls restoreFullscreenWithRetry up to sleep(300)
FullscreenCheck(i, t) ==
    IF ThresholdReached(fullscreenExitCount)
    THEN /\ isDisqualified' = TRUE
         /\ disqBy' = IF isDisqualified THEN disqBy ELSE t.ord
         /\ pointerEvents' = "none"
         /\ autoSubmitStarts' = autoSubmitStarts + 1
         /\ logCount' = Logged(logCount, "exam_disqualified")
         /\ tasks' = [tasks EXCEPT ![i] = [t EXCEPT !.pc = "dq_log"]]
    ELSE /\ tasks' = [tasks EXCEPT ![i] = [t EXCEPT !.pc = "rs_sleep"]]
         /\ UNCHANGED <<isDisqualified, disqBy, pointerEvents,
                        autoSubmitStarts, logCount>>

FullscreenLogSettled(i, outcome) ==
    /\ SinkAnswers /\ tasks[i].pc = "log" /\ tasks[i].kind = "fullscreen"
    /\ LET t2 == IF outcome = "ok" THEN tasks[i] ELSE LogFailed(tasks[i]) IN
       IF t2.pc = "thrown"
       THEN /\ tasks' = [tasks EXCEPT ![i] = t2]
            /\ UNCHANGED <<isDisqualified, disqBy, pointerEvents,
                           autoSubmitStarts, logCount>>
       ELSE FullscreenCheck(i, t2)
    /\ UNCHANGED <<camVars, timerVars, initVars, viewer, fullscreenExitCount,
                   fullscreenRetryAttempts, posts, gets, lockVars, capVars,
                   envVars, nTasks>>

\* ---- autoSubmitTestDisqualified (part_003:1093-1148) ----
\* await logEvent('exam_disqualified') settles, sleep(1000) starts
DisqualifiedLogSettled(i) ==
    /\ SinkAnswers /\ tasks[i].pc = "dq_log"
    /\ tasks' = [tasks EXCEPT ![i].pc = "dq_sleep"]
    /\ UNCHANGED <<camVars, timerVars, initVars, viewer, fsVars, lockVars, capVars,
                   envVars, nTasks, logCount>>

\* after the sleep: form.submit() and the 3 s timer, or the catch with the GET
SubmitForm(i, submitOk) ==
    /\ Alive /\ tasks[i].pc = "dq_sleep"
    /\ IF submitOk
       THEN /\ posts' = posts + 1
            /\ tasks' = [tasks EXCEPT ![i].pc = "dq_timer"]
            /\ UNCHANGED gets
       ELSE /\ gets' = gets + 1
            /\ tasks' = [tasks EXCEPT ![i] = Finished(tasks[i])]
            /\ UNCHANGED posts
    /\ UNCHANGED <<camVars, timerVars, initVars, viewer, fullscreenExitCount,
                   fullscreenRetryAttempts, isDisqualified, pointerEvents,
                   disqBy, autoSubmitStarts, lockVars, capVars, envVars,
                   nTasks, logCount>>

\* the 3 s timer fires on a page that has not navigated (part_003:1136-1139)
SubmitTimeout(i) ==
    /\ Alive /\ tasks[i].pc = "dq_timer"
    /\ gets' = gets + 1
    /\ tasks' = [tasks EXCEPT ![i] = Finished(tasks[i])]
    /\ UNCHANGED <<camVars, timerVars, initVars, viewer, fullscreenExitCount,
                   fullscreenRetryAttempts, isDisqualified, pointerEvents,
                   disqBy, autoSubmitStarts, posts, lockVars, capVars, envVars,
                   nTasks, logCount>>

\* a submission request is answered: the page is replaced, its script stops
PageUnloads ==
    /\ Alive /\ posts + gets > 0
    /\ navigated' = TRUE
    /\ UNCHANGED <<camVars, timerVars, initVars, viewer, fsVars, lockVars, capVars,
                   now, docFullscreen, exitPending, sinksUp, taskVars>>

\* ---- restoreFullscreenWithRetry (part_003:1040-1088) ----
\* a sleep ends and attemptFullscreen runs up to its await of the request
RestoreAttempt(i) ==
    /\ Alive /\ tasks[i].pc = "rs_sleep"
    /\ fullscreenRetryAttempts' = fullscreenRetryAttempts + 1
    /\ tasks' = [tasks EXCEPT ![i].pc = "rs_req", ![i].tries = @ + 1]
    /\ UNCHANGED <<camVars, timerVars, initVars, viewer, fullscreenExitCount,
                   isDisqualified, pointerEvents, disqBy, autoSubmitStarts,
                   posts, gets, lockVars, capVars, envVars, nTasks, logCount>>

RetryAgain(success, attempts) == ~success /\ attempts < maxFullscreenRetries

\* sleep(500 * this.fullscreenRetryAttempts) (part_003:1076)
BackoffMs(attempts) == 500 * attempts

\* the request settles: resolved (the document is fullscreen) or rejected
RestoreSettled(i, success) ==
    /\ Alive /\ tasks[i].pc = "rs_req"
    /\ docFullscreen' = (docFullscreen \/ success)
    /\ IF success
       THEN /\ tasks' = [tasks EXCEPT ![i] = Finished(tasks[i])]
            /\ UNCHANGED logCount
       ELSE IF RetryAgain(success, fullscreenRetryAttempts)
       THEN /\ tasks' = [tasks EXCEPT
                          ![i].pc = "rs_sleep",
                          ![i].wait = BackoffMs(fullscreenRetryAttempts)]
            /\ UNCHANGED logCount
       ELSE /\ tasks' = [tasks EXCEPT ![i].pc = "rs_log", ![i].wait = 0]
            /\ logCount' = Logged(logCount, "fullscreen_restore_failed")
    /\ UNCHANGED <<camVars, timerVars, initVars, viewer, fsVars, lockVars, capVars,
                   now, exitPending, sinksUp, navigated, nTasks>>

RestoreLogSettled(i) ==
    /\ SinkAnswers /\ tasks[i].pc = "rs_log"
    /\ tasks' = [tasks EXCEPT ![i] = Finished(tasks[i])]
    /\ UNCHANGED <<camVars, timerVars, initVars, viewer, fsVars, lockVars, capVars,
                   envVars, nTasks, logCount>>

\* ---- dispatch of a handler that logs, with or without a capture before ----
Handler(kind, log) == [NoTask EXCEPT !.kind = kind, !.log = log]

Dispatch(kind, cat, log) ==
    /\ CanDispatch
    /\ nTasks' = nTasks + 1
    /\ IF cat = "none"
       THEN /\ CallLog(nTasks + 1, Handler(kind, log))
            /\ UNCHANGED capVars
       ELSE CallCapture(nTasks + 1, Handler(kind, log), cat)

\* the same for a handler whose log carries the count of its event
DispatchCounted(kind, ord, cat, log) ==
    /\ CanDispatch
    /\ nTasks' = nTasks + 1
    /\ LET t == [Handler(kind, log) EXCEPT !.ord = ord] IN
       IF cat = "none"
       THEN /\ CallLog(nTasks + 1, t)
            /\ UNCHANGED capVars
       ELSE CallCapture(nTasks + 1, t, cat)

\* Math.round((focusTime - blurTime) / 1000) (part_003:911, 940)
AwayTimeSeconds(focusTime, blurTime) == (focusTime - blurTime + 500) \div 1000

\* a classification that warns from 30 seconds on
AwaySeverityInclusive(seconds) == IF seconds >= 30 THEN "warning" ELSE "info"

\* severity: awayTimeSeconds > 30 ? 'warning' : 'info' (part_003:915, 944)
AwaySeverity(seconds) == IF seconds > 30 THEN "warning" ELSE "info"

\* the return branch of the visibility handler and the focus handler: the
\* away time is computed and logged with its severity
DispatchReturn(kind, log) ==
    /\ CanDispatch
    /\ nTasks' = nTasks + 1
    /\ LET seconds == AwayTimeSeconds(now, windowBlurTime) IN
       CallLog(nTasks + 1,
               [Handler(kind, log) EXCEPT !.away = seconds,
                                          !.severity = AwaySeverity(seconds)])
    /\ UNCHANGED capVars

\* a capture for the third attempt and for every later one
FromThird(count, cat) == IF count >= 3 THEN cat ELSE "none"

\* every third attempt is captured (part_003:1194, 1298, 1318, 1338, 1384, 1412)
EveryThird(count, cat) == IF count % 3 = 0 THEN cat ELSE "none"

\* ---- setupEnhancedEventTracking (part_003:881-953) ----
\* visibilitychange with document.hidden
VisibilityHidden ==
    /\ Alive /\ listening /\ ~docHidden
    /\ docHidden' = TRUE
    /\ warningCount' = Increment(warningCount)
    /\ Dispatch("visibility", "tab_switch", "tab_switched")
    /\ event' = NoEvent
    /\ UNCHANGED <<camVars, timerVars, initVars, viewer, fsVars, copyAttempts,
                   pasteAttempts, selectAllAttempts, selectionAttempts,
                   rightClickCount, windowHasFocus, windowBlurTime, docFocused,
                   devToolsWarningShown, envVars>>

\* visibilitychange with the document visible again
VisibilityVisible ==
    /\ Alive /\ listening /\ docHidden
    /\ docHidden' = FALSE
    /\ windowHasFocus' = TRUE
    /\ IF windowBlurTime # 0
       THEN DispatchReturn("return", "tab_returned")
       ELSE UNCHANGED <<taskVars, capVars>>
    /\ event' = NoEvent
    /\ UNCHANGED <<camVars, timerVars, initVars, viewer, fsVars, counterVars,
                   windowBlurTime, docFocused, devToolsWarningShown, envVars>>

\* the window loses focus
WindowBlur ==
    /\ Alive /\ listening /\ docFocused
    /\ docFocused' = FALSE
    /\ Dispatch("blur", "window_blur", "window_blur")
    /\ event' = NoEvent
    /\ UNCHANGED <<camVars, timerVars, initVars, viewer, fsVars, counterVars,
                   windowHasFocus, windowBlurTime, docHidden,
                   devToolsWarningShown, envVars>>

\* the window gets the focus back
WindowFocus ==
    /\ Alive /\ listening /\ ~docFocused
    /\ docFocused' = TRUE
    /\ IF ~windowHasFocus /\ windowBlurTime # 0
       THEN /\ DispatchReturn("focus", "window_focus_returned")
            /\ UNCHANGED windowHasFocus
       ELSE /\ windowHasFocus' = TRUE
            /\ UNCHANGED <<taskVars, capVars>>
    /\ event' = NoEvent
    /\ UNCHANGED <<camVars, timerVars, initVars, viewer, fsVars, counterVars,
                   windowBlurTime, docHidden, devToolsWarningShown, envVars>>

\* what follows the handler's own log in the handlers that end after it
\* (part_003:901-906, 934-935, 950-951)
HandlerLogSettled(i, outcome) ==
    /\ SinkAnswers /\ tasks[i].pc = "log"
    /\ tasks[i].kind \notin {"fullscreen", "devtools"}
    /\ LET t2 == IF outcome = "ok" THEN tasks[i] ELSE LogFailed(tasks[i]) IN
       IF t2.pc = "thrown"
       THEN /\ tasks' = [tasks EXCEPT ![i] = t2]
            /\ UNCHANGED <<windowHasFocus, windowBlurTime, dialogs>>
       ELSE /\ tasks' = [tasks EXCEPT ![i] = Finished(t2)]
            /\ windowBlurTime' = IF t2.kind \in {"visibility", "blur"}
                                 THEN now ELSE windowBlurTime
            /\ windowHasFocus' =
                  IF t2.kind \in {"visibility", "blur"} THEN FALSE
                  ELSE IF t2.kind = "focus" THEN TRUE
                  ELSE windowHasFocus
            /\ dialogs' = IF t2.kind = "visibility"
                             /\ warningCount >= maxWarnings
                          THEN dialogs \cup {"tab_switch_warning"}
                          ELSE dialogs
    /\ event' = NoEvent
    /\ UNCHANGED <<camVars, timerVars, initPc, checks, viewer, listening, cleanups,
                   fsVars, counterVars, docHidden, docFocused,
                   devToolsWarningShown, capVars, envVars, nTasks, logCount>>

\* ---- setupBrowserLockdown (part_003:1251-1455) ----
ContextMenu ==
    /\ Alive /\ listening
    /\ rightClickCount' = Increment(rightClickCount)
    /\ DispatchCounted("contextmenu", Increment(rightClickCount),
                IF Increment(rightClickCount) >= 3 THEN "right_click_violation"
                ELSE "none",
                "right_click_blocked")
    \* e.preventDefault() is the handler's first statement (part_003:1255)
    /\ event' = Delivered("contextmenu", FALSE, TRUE)
    /\ UNCHANGED <<camVars, timerVars, initVars, viewer, fsVars, warningCount,
                   copyAttempts, pasteAttempts, selectAllAttempts,
                   selectionAttempts, focusVars, devToolsWarningShown,
                   envVars>>

Keys == {"F12", "Ctrl+Shift+C", "Ctrl+C", "Ctrl+V", "Ctrl+A", "Ctrl+P",
         "Ctrl+S", "Tab"}

DevToolsKey(key) == key \in {"F12", "Ctrl+Shift+C"}
CopyKey(key) == key \in {"Ctrl+C", "Ctrl+Shift+C"}

\* a keydown handler that does not look at the target of the event
KeyEventTypeAnywhere(key, inInput) ==
    IF key = "Ctrl+S" THEN "save_blocked"
    ELSE IF key = "Ctrl+P" THEN "print_blocked"
    ELSE IF key = "Ctrl+A" THEN "select_all_blocked"
    ELSE IF key = "Ctrl+V" THEN "paste_blocked"
    ELSE IF CopyKey(key) THEN "copy_blocked"
    ELSE IF DevToolsKey(key) THEN "devtools_blocked"
    ELSE "none"

\* the tests of the keydown handler run in order and the last that matches
\* names the event (part_003:1280-1360)
KeyEventType(key, inInput) ==
    IF key = "Ctrl+S" THEN "save_blocked"
    ELSE IF key = "Ctrl+P" THEN "print_blocked"
    ELSE IF key = "Ctrl+A" /\ ~inInput THEN "select_all_blocked"
    ELSE IF key = "Ctrl+V" /\ ~inInput THEN "paste_blocked"
    ELSE IF CopyKey(key) /\ ~inInput THEN "copy_blocked"
    ELSE IF DevToolsKey(key) THEN "devtools_blocked"
    ELSE "none"

KeyDown(key, inInput) ==
    /\ Alive /\ listening
    /\ LET type == KeyEventType(key, inInput)
           copy == CopyKey(key) /\ ~inInput
           paste == key = "Ctrl+V" /\ ~inInput
           all == key = "Ctrl+A" /\ ~inInput
           cat == IF copy
                  THEN EveryThird(Increment(copyAttempts), "copy_attempt")
                  ELSE IF paste
                  THEN EveryThird(Increment(pasteAttempts), "paste_attempt")
                  ELSE IF all
                  THEN EveryThird(Increment(selectAllAttempts),
                                  "select_all_attempt")
                  ELSE "none"
       IN /\ copyAttempts' = IF copy THEN Increment(copyAttempts)
                             ELSE copyAttempts
          /\ pasteAttempts' = IF paste THEN Increment(pasteAttempts)
                              ELSE pasteAttempts
          /\ selectAllAttempts' = IF all THEN Increment(selectAllAttempts)
                                  ELSE selectAllAttempts
          /\ IF type = "none"
             THEN UNCHANGED <<taskVars, capVars>>
             ELSE Dispatch("keydown", cat, type)
          \* e.preventDefault() follows the awaited capture (part_003:1298,
          \* 1318, 1338, 1363): it is in time when no capture was awaited
          /\ event' = Delivered(key, inInput, type # "none" /\ cat = "none")
    /\ UNCHANGED <<camVars, timerVars, initVars, viewer, fsVars, warningCount,
                   selectionAttempts, rightClickCount, focusVars,
                   devToolsWarningShown, envVars>>

CopyEvent(inInput) ==
    /\ Alive /\ listening
    /\ IF inInput
       THEN UNCHANGED <<copyAttempts, taskVars, capVars>>
       ELSE /\ copyAttempts' = Increment(copyAttempts)
            /\ Dispatch("copy",
                        EveryThird(Increment(copyAttempts), "copy_attempt"),
                        "copy_event_blocked")
    /\ event' = Delivered("copy", inInput, ~inInput)
    /\ UNCHANGED <<camVars, timerVars, initVars, viewer, fsVars, warningCount,
                   pasteAttempts, selectAllAttempts, selectionAttempts,
                   rightClickCount, focusVars, devToolsWarningShown, envVars>>

PasteEvent(inInput) ==
    /\ Alive /\ listening
    /\ IF inInput
       THEN UNCHANGED <<pasteAttempts, taskVars, capVars>>
       ELSE /\ pasteAttempts' = Increment(pasteAttempts)
            /\ Dispatch("paste",
                        EveryThird(Increment(pasteAttempts), "paste_attempt"),
                        "paste_event_blocked")
    /\ event' = Delivered("paste", inInput, ~inInput)
    /\ UNCHANGED <<camVars, timerVars, initVars, viewer, fsVars, warningCount,
                   copyAttempts, selectAllAttempts, selectionAttempts,
                   rightClickCount, focusVars, devToolsWarningShown, envVars>>

CutEvent(inInput) ==
    /\ Alive /\ listening
    /\ IF inInput
       THEN UNCHANGED <<taskVars, capVars>>
       ELSE Dispatch("cut", "none", "cut_event_blocked")
    /\ event' = Delivered("cut", inInput, ~inInput)
    /\ UNCHANGED <<camVars, timerVars, initVars, viewer, fsVars, counterVars,
                   focusVars, devToolsWarningShown, envVars>>

\* ---- setupSelectionBlocking (part_003:1153-1246) ----
SelectStart(inInput) ==
    /\ Alive /\ listening
    /\ IF inInput
       THEN UNCHANGED <<selectionAttempts, taskVars, capVars>>
       ELSE /\ selectionAttempts' = Increment(selectionAttempts)
            /\ Dispatch("selectstart",
                        EveryThird(Increment(selectionAttempts),
                                   "text_selection_attempt"),
                        "text_selection_blocked")
    /\ event' = Delivered("selectstart", inInput, ~inInput)
    /\ UNCHANGED <<camVars, timerVars, initVars, viewer, fsVars, warningCount,
                   copyAttempts, pasteAttempts, selectAllAttempts,
                   rightClickCount, focusVars, devToolsWarningShown, envVars>>

DragStart ==
    /\ Alive /\ listening
    /\ Dispatch("dragstart", "none", "drag_blocked")
    /\ event' = Delivered("dragstart", FALSE, TRUE)
    /\ UNCHANGED <<camVars, timerVars, initVars, viewer, fsVars, counterVars,
                   focusVars, devToolsWarningShown, envVars>>

\* selectionchange: a non-empty selection outside a text field is removed and
\* counted, every fifth one is logged
SelectionChange(nonEmpty, inInput) ==
    /\ Alive /\ listening
    /\ IF nonEmpty /\ ~inInput
       THEN /\ selectionAttempts < MaxSelections
            /\ selectionAttempts' = Increment(selectionAttempts)
            /\ IF (Increment(selectionAttempts)) % 5 = 0
               THEN Dispatch("selectionchange", "none",
                             "persistent_selection_attempts")
               ELSE UNCHANGED <<taskVars, capVars>>
       ELSE UNCHANGED <<selectionAttempts, taskVars, capVars>>
    \* selectionchange cannot be cancelled: the handler removes the ranges
    /\ event' = Delivered("selectionchange", inInput, FALSE)
    /\ UNCHANGED <<camVars, timerVars, initVars, viewer, fsVars, warningCount,
                   copyAttempts, pasteAttempts, selectAllAttempts,
                   rightClickCount, focusVars, devToolsWarningShown, envVars>>

\* ---- startDevToolsMonitoring (part_003:627-651) ----
\* one tick of the 5 s poll; detectDevTools awaits nothing
\* a poll that reacts whenever it finds the developer tools open
ReactsWheneverOpen(open, shown) == open

\* the test of the poll (part_003:631)
ReactsToDevTools(open, shown) == open /\ ~shown

DevToolsPoll(open) ==
    /\ Alive /\ "devtools" \in timers
    /\ IF ReactsToDevTools(open, devToolsWarningShown)
       THEN /\ devToolsWarningShown' = TRUE
            /\ Dispatch("devtools", "none", "devtools_opened_during_exam")
       ELSE UNCHANGED <<devToolsWarningShown, taskVars, capVars>>
    /\ event' = NoEvent
    /\ UNCHANGED <<camVars, timerVars, initVars, viewer, fsVars, counterVars,
                   focusVars, envVars>>

\* the poll's log has settled: the capture is called, the alert follows it
DevToolsLogSettled(i, outcome) ==
    /\ SinkAnswers /\ tasks[i].pc = "log" /\ tasks[i].kind = "devtools"
    /\ LET t2 == IF outcome = "ok" THEN tasks[i] ELSE LogFailed(tasks[i]) IN
       IF t2.pc = "thrown"
       THEN /\ tasks' = [tasks EXCEPT ![i] = t2]
            /\ UNCHANGED <<logCount, capVars>>
       ELSE CallCapture(i, t2, "devtools_violation")
    /\ event' = NoEvent
    /\ UNCHANGED <<camVars, timerVars, initVars, viewer, fsVars, counterVars,
                   focusVars, devToolsWarningShown, envVars, nTasks>>

\* ---- the environment ----
Tick ==
    /\ Alive /\ now + TickMs <= StartTime + MaxTicks * TickMs
    /\ now' = now + TickMs
    /\ UNCHANGED <<camVars, timerVars, initVars, viewer, fsVars, lockVars, capVars,
                   docFullscreen, exitPending, sinksUp, navigated, taskVars>>

\* the user stays away for a while, with no handler waiting
AwayMs == {10000, 30000, 30499, 30500, 45000}

Elapse(ms) ==
    /\ Alive /\ Suspended = {} /\ now + ms <= StartTime + MaxAwayMs
    /\ now' = now + ms
    /\ UNCHANGED <<camVars, timerVars, initVars, viewer, fsVars, lockVars, capVars,
                   docFullscreen, exitPending, sinksUp, navigated, taskVars>>

\* from now on the log sink and the upload sink answer no request
SinkOutage ==
    /\ Alive /\ sinksUp
    /\ sinksUp' = FALSE
    /\ UNCHANGED <<camVars, timerVars, initVars, viewer, fsVars, lockVars, capVars,
                   now, docFullscreen, exitPending, navigated, taskVars>>


\* ---- performSystemChecks (part_003:267-338) ----
\* a failure list that leaves the developer-tools check out
CriticalFailuresWithoutDevTools(c) ==
    (IF ~c.html2canvas THEN <<"html2canvas">> ELSE <<>>)
    \o (IF ~c.screenshotTest THEN <<"screenshotTest">> ELSE <<>>)
    \o (IF ~c.uploadEndpoint THEN <<"uploadEndpoint">> ELSE <<>>)
    \o (IF ~c.adBlocker THEN <<"adBlocker">> ELSE <<>>)

\* the failure list built from the five checks
CriticalFailures(c) ==
    (IF ~c.html2canvas THEN <<"html2canvas">> ELSE <<>>)
    \o (IF ~c.screenshotTest THEN <<"screenshotTest">> ELSE <<>>)
    \o (IF ~c.uploadEndpoint THEN <<"uploadEndpoint">> ELSE <<>>)
    \o (IF ~c.adBlocker THEN <<"adBlocker">> ELSE <<>>)
    \o (IF ~c.devTools THEN <<"devTools">> ELSE <<>>)

\* the five checks run and logEvent('system_check_completed') is issued; the
\* render test runs only when the library is present
PerformSystemChecks(h, s, a, u, d) ==
    /\ Alive /\ initPc = "new"
    /\ h \/ ~s
    /\ checks' = [html2canvas |-> h, screenshotTest |-> s, adBlocker |-> a,
                  uploadEndpoint |-> u, devTools |-> d]
    /\ logCount' = Logged(logCount, "system_check_completed")
    /\ initPc' = "checks_log"
    /\ UNCHANGED <<camVars, timerVars, dialogs, listening, cleanups, viewer,
                   fsVars, lockVars, capVars, envVars, tasks, nTasks>>

\* the log settles, the dialogs are shown and initialize() goes on or fails;
\* showSystemCheckError logs system_check_failed (part_003:487-491)
SystemChecksDone ==
    /\ SinkAnswers /\ initPc = "checks_log"
    /\ dialogs' = dialogs
          \cup (IF ~checks.adBlocker THEN {"adblocker_warning"} ELSE {})
          \cup (IF CriticalFailures(checks) # <<>>
                THEN {"system_check_error"} ELSE {})
    /\ initPc' = IF CriticalFailures(checks) # <<>> THEN "failed"
                 ELSE "camera_req"
    /\ logCount' = IF CriticalFailures(checks) # <<>>
                   THEN Logged(logCount, "system_check_failed")
                   ELSE logCount
    /\ UNCHANGED <<camVars, timerVars, checks, viewer, listening, cleanups, fsVars,
                   lockVars, capVars, envVars, tasks, nTasks>>

\* ---- requestCameraAccess (part_003:573-622) and showPermissionError ----
RequestCameraAccess(outcome) ==
    /\ Alive /\ initPc = "camera_req"
    /\ CASE outcome = "granted" ->
              /\ videoStream' = "stream" /\ trackState' = "live"
              /\ trackEnabled' = TRUE
              /\ logCount' = Logged(logCount, "camera_access_granted")
              /\ initPc' = "camera_log"
              /\ UNCHANGED dialogs
         [] outcome = "disabled" ->
              \* a stream without an enabled video track: its tracks are
              \* stopped, initialize() shows the permission error
              /\ videoStream' = "stream" /\ trackState' = "ended"
              /\ trackEnabled' = FALSE
              /\ logCount' = Logged(logCount, "camera_permission_denied")
              /\ dialogs' = dialogs \cup {"permission_error"}
              /\ initPc' = "failed"
         [] outcome = "denied" ->
              /\ logCount' = Logged(logCount, "camera_access_denied")
              /\ initPc' = "denied_log"
              /\ UNCHANGED <<videoStream, trackState, trackEnabled, dialogs>>
    /\ UNCHANGED <<permissionsGranted, cameraDisabledWarningShown,
                   cameraWarnings, cameraDetections, timerVars, checks, viewer,
                   listening, cleanups,
                   fsVars, lockVars, capVars, envVars, tasks, nTasks>>

\* a denial after which initialize() goes on as if the camera was granted
CameraDeniedProceeds ==
    /\ SinkAnswers /\ initPc = "denied_log"
    /\ initPc' = "camera_log"
    /\ UNCHANGED <<camVars, timerVars, checks, viewer, dialogs, listening, cleanups,
                   fsVars, lockVars, capVars, envVars, taskVars>>

\* the denial log settles, requestCameraAccess returns false (part_003:620)
\* and initialize() calls showPermissionError and returns false (511-515)
CameraDenied ==
    /\ SinkAnswers /\ initPc = "denied_log"
    /\ logCount' = Logged(logCount, "camera_permission_denied")
    /\ dialogs' = dialogs \cup {"permission_error"}
    /\ initPc' = "failed"
    /\ UNCHANGED <<camVars, timerVars, checks, viewer, listening, cleanups, fsVars,
                   lockVars, capVars, envVars, tasks, nTasks>>

\* a webcam capture that does not look at track.enabled
CameraOffUnlessDisabled == videoStream = "none" \/ trackState # "live"

\* the camera tests of the monitor and of the webcam snapshot
\* (part_003:658-675, 1550-1559)
CameraOff == videoStream = "none" \/ trackState # "live" \/ ~trackEnabled

\* ---- captureWebcamSnapshot, captureScreenshot (part_003:1549-1657) ----
Snapshot(type) == [NoTask EXCEPT !.kind = type, !.pc = "snap_render"]

\* captureScreenshot that finds the page not capable logs screenshot_skipped
\* and returns (part_003:1592-1601)
SkippedScreenshot ==
    [NoTask EXCEPT !.kind = "screen", !.pc = "snap_log",
                   !.log = "screenshot_skipped"]

\* the body of the snapshot timer: both captures are called, neither is
\* awaited, each runs to its first await. cam: the stream is there, granted,
\* live and enabled (part_003:1550-1559); capable: html2canvas is loaded and
\* the render test passed (part_003:1592)
StartSnapshots(cam, capable) ==
    /\ nTasks' = nTasks + 2
    /\ tasks' = [tasks EXCEPT
                    ![nTasks + 1] = IF cam THEN Snapshot("webcam")
                                    ELSE Finished(Snapshot("webcam")),
                    ![nTasks + 2] = IF capable THEN Snapshot("screen")
                                    ELSE SkippedScreenshot]
    /\ captures' = [captures EXCEPT
                       !["webcam"] = IF cam THEN @ + 1 ELSE @,
                       !["screen"] = IF capable THEN @ + 1 ELSE @]
    /\ logCount' = IF capable THEN logCount
                   ELSE Logged(logCount, "screenshot_skipped")

\* an upload that failed is tried again
UploadRetried(t) == [t EXCEPT !.pc = "snap_render"]

\* the catch of uploadSnapshot (part_003:1651-1653): the failure is written
\* to the console and the capture returns
UploadDropped(t) == Finished(t)

\* the video frame or the html2canvas render and toBlob settle
\* (part_003:1562-1580, 1605-1625): with an image the upload is issued; a
\* rejection, a missing blob (the throw of line 1617, the TypeError of
\* FormData.append at line 1637) ends in the catch, which logs
\* screenshot_failed for the screen capture (part_003:1583, 1628-1634)
SnapshotRendered(i, outcome) ==
    /\ Alive /\ tasks[i].pc = "snap_render"
    /\ LET t == tasks[i] IN
       IF outcome = "ok"
       THEN /\ uploads' = [uploads EXCEPT ![t.kind] = @ + 1]
            /\ tasks' = [tasks EXCEPT ![i].pc = "snap_upload"]
            /\ UNCHANGED <<dropped, logCount>>
       ELSE /\ dropped' = [dropped EXCEPT ![t.kind] = @ + 1]
            /\ UNCHANGED uploads
            /\ IF t.kind = "screen"
               THEN /\ logCount' = Logged(logCount, "screenshot_failed")
                    /\ tasks' = [tasks EXCEPT ![i].pc = "snap_log",
                                              ![i].log = "screenshot_failed"]
               ELSE /\ tasks' = [tasks EXCEPT ![i] = Finished(t)]
                    /\ UNCHANGED logCount
    /\ UNCHANGED <<camVars, timerVars, initVars, viewer, fsVars, lockVars,
                   lastEventScreenshot, trig, captures, envVars, nTasks>>

\* the fetch of uploadSnapshot settles (part_003:1641-1653)
SnapshotUploadSettled(i, outcome) ==
    /\ SinkAnswers /\ tasks[i].pc = "snap_upload"
    /\ tasks' = [tasks EXCEPT ![i] = IF outcome = "ok" THEN Finished(tasks[i])
                                     ELSE UploadDropped(tasks[i])]
    /\ UNCHANGED <<camVars, timerVars, initVars, viewer, fsVars, lockVars, capVars,
                   envVars, nTasks, logCount>>

\* the screenshot_skipped or screenshot_failed log settles
SnapshotLogSettled(i) ==
    /\ SinkAnswers /\ tasks[i].pc = "snap_log"
    /\ tasks' = [tasks EXCEPT ![i] = Finished(tasks[i])]
    /\ UNCHANGED <<camVars, timerVars, initVars, viewer, fsVars, lockVars, capVars,
                   envVars, nTasks, logCount>>

\* one tick of the snapshot timer (part_003:1666-1669)
SnapshotTick ==
    /\ Alive /\ "snapshot" \in timers
    /\ nTasks + 2 <= MaxEvents /\ Cardinality(Suspended) + 2 <= MaxActive
    /\ StartSnapshots(~CameraOff /\ permissionsGranted,
                      checks.html2canvas /\ checks.screenshotTest)
    /\ UNCHANGED <<camVars, timerVars, initVars, viewer, fsVars, lockVars,
                   lastEventScreenshot, trig, uploads, dropped, envVars>>

\* captureWebcamSnapshot() and captureScreenshot() are called on the object as
\* it is, whatever started it (part_003:1549, 1591)
PeriodicCaptures ==
    /\ Alive
    /\ nTasks + 2 <= MaxEvents /\ Cardinality(Suspended) + 2 <= MaxActive
    /\ StartSnapshots(~CameraOff /\ permissionsGranted,
                      checks.html2canvas /\ checks.screenshotTest)
    /\ UNCHANGED <<camVars, timerVars, initVars, viewer, fsVars, lockVars,
                   lastEventScreenshot, trig, uploads, dropped, envVars>>

\* ---- initialize (part_003:517-530): the synchronous set-up ----
\* startDevToolsMonitoring keeps no handle of its interval (part_003:628);
\* startCameraMonitoring and startSnapshotTimer store theirs
InitializeSetup ==
    /\ SinkAnswers /\ initPc = "camera_log"
    /\ permissionsGranted' = TRUE
    /\ timers' = timers \cup {"devtools", "camera", "snapshot"}
    /\ streamMonitorTimer' = "id" /\ snapshotTimer' = "id"
    /\ listening' = TRUE
    /\ initPc' = "ip_fetch"
    \* startSnapshotTimer takes the first two snapshots (part_003:1663-1664)
    /\ StartSnapshots(~CameraOff,
                      checks.html2canvas /\ checks.screenshotTest)
    /\ UNCHANGED <<videoStream, cameraDisabledWarningShown, trackState,
                   trackEnabled, cameraWarnings, cameraDetections, checks, viewer,
                   dialogs, cleanups, fsVars, lockVars,
                   lastEventScreenshot, trig, uploads, dropped, envVars>>

\* logIPAddress (part_003:1702-1721): the lookup settles either way and
\* ip_logged is issued; then proctoring_initialized; then initialize() returns
InitializeLogs ==
    /\ Alive
    /\ \/ /\ initPc = "ip_fetch"
          /\ initPc' = "ip_log"
          /\ logCount' = Logged(logCount, "ip_logged")
       \/ /\ initPc = "ip_log" /\ sinksUp
          /\ initPc' = "init_log"
          /\ logCount' = Logged(logCount, "proctoring_initialized")
       \/ /\ initPc = "init_log" /\ sinksUp
          /\ initPc' = "done"
          /\ UNCHANGED logCount
    /\ UNCHANGED <<camVars, timerVars, checks, viewer, dialogs, listening, cleanups,
                   fsVars, lockVars, capVars, envVars, tasks, nTasks>>

\* ---- startCameraMonitoring / handleCameraDisabled (part_003:656-712) ----
\* a call of handleCameraDisabled that warns every time
HandleCameraDisabledAgain ==
    /\ cameraDetections' = cameraDetections + 1
    /\ cameraDisabledWarningShown' = TRUE
    /\ logCount' = Logged(logCount, "camera_disabled")
    /\ cameraWarnings' = cameraWarnings + 1

\* handleCameraDisabled (part_003:696-712): the test and the set of the flag
\* are in one turn; the log is not awaited; the overlay is shown
HandleCameraDisabled ==
    /\ cameraDetections' = cameraDetections + 1
    /\ IF cameraDisabledWarningShown
       THEN UNCHANGED <<cameraDisabledWarningShown, logCount, cameraWarnings>>
       ELSE /\ cameraDisabledWarningShown' = TRUE
            /\ logCount' = Logged(logCount, "camera_disabled")
            /\ cameraWarnings' = cameraWarnings + 1

\* one tick of the 2 s camera poll (part_003:657-685)
CameraPoll ==
    /\ Alive /\ "camera" \in timers
    /\ IF CameraOff
       THEN cameraDetections < MaxDetections /\ HandleCameraDisabled
       ELSE UNCHANGED <<cameraDisabledWarningShown, logCount, cameraWarnings,
                        cameraDetections>>
    /\ UNCHANGED <<videoStream, permissionsGranted, trackState, trackEnabled,
                   timerVars, initVars, viewer, fsVars, lockVars, capVars, envVars,
                   tasks, nTasks>>

\* the device goes away: the track ends and its 'ended' listener runs
TrackEnded ==
    /\ Alive /\ listening /\ trackState = "live"
    /\ cameraDetections < MaxDetections
    /\ trackState' = "ended"
    /\ HandleCameraDisabled
    /\ UNCHANGED <<videoStream, permissionsGranted, trackEnabled, timerVars,
                   initVars, viewer, fsVars, lockVars, capVars, envVars, tasks, nTasks>>

\* the track is switched off (track.enabled = false), no event is fired
TrackDisabled ==
    /\ Alive /\ listening /\ trackState = "live" /\ trackEnabled
    /\ trackEnabled' = FALSE
    /\ UNCHANGED <<videoStream, permissionsGranted, trackState,
                   cameraDisabledWarningShown, cameraWarnings,
                   cameraDetections, timerVars, initVars, viewer, fsVars, lockVars,
                   capVars, envVars, taskVars>>

\* ---- cleanup (part_003:1758-1776) ----
\* clearInterval for a handle that is set
ClearedBy(handle, timer) == IF handle # "null" THEN {timer} ELSE {}

\* a stop() that starts a stopped track again
StopToggles(stream, state) ==
    IF stream = "none" THEN state
    ELSE IF state = "live" THEN "ended" ELSE "live"

\* track.stop() on every track of a stream that is set (part_003:1767-1769):
\* a live track ends, an ended one stays ended
Stopped(stream, state) ==
    IF stream # "none" /\ state = "live" THEN "ended" ELSE state

\* document.exitFullscreen() when there is a fullscreen element
\* (part_003:1771-1773): the request is pending until the document leaves
ExitRequested(fullscreen, pending) == pending \/ fullscreen

\* the two stored handles are cleared and the tracks stopped (stop() fires no
\* 'ended' event); exitFullscreen() is a request, the exit itself is a later
\* fullscreen change
Cleanup ==
    /\ Alive /\ cleanups < MaxCleanups
    /\ timers' = (timers \ ClearedBy(streamMonitorTimer, "camera"))
                         \ ClearedBy(snapshotTimer, "snapshot")
    /\ trackState' = Stopped(videoStream, trackState)
    /\ exitPending' = ExitRequested(docFullscreen, exitPending)
    /\ cleanups' = cleanups + 1
    /\ UNCHANGED <<videoStream, permissionsGranted, trackEnabled,
                   cameraDisabledWarningShown, cameraWarnings,
                   cameraDetections, snapshotTimer, streamMonitorTimer,
                   initPc, checks, viewer, dialogs, listening, fsVars, lockVars,
                   capVars, now, docFullscreen, sinksUp, navigated, taskVars>>

\* ---- specifications ----
Outcomes == {"ok", "throw", "noblob"}
UploadOutcomes == {"ok", "notok", "reject"}
LogOutcomes == {"ok", "reject"}

\* the steps of a capture that was started
CaptureStep(i) ==
    \/ \E o \in Outcomes : CaptureRendered(i, o)
    \/ \E o \in UploadOutcomes : UploadSettled(i, o)
    \/ \E o \in LogOutcomes : FailLogSettled(i, o)

\* the steps of the fullscreen handler after its capture
FullscreenStep(i) ==
    \/ \E o \in LogOutcomes : FullscreenLogSettled(i, o)
    \/ DisqualifiedLogSettled(i)
    \/ \E ok \in BOOLEAN : SubmitForm(i, ok)
    \/ SubmitTimeout(i)
    \/ RestoreAttempt(i)
    \/ \E ok \in BOOLEAN : RestoreSettled(i, ok)
    \/ RestoreLogSettled(i)

FsStep(i) == CaptureStep(i) \/ FullscreenStep(i)

\* the steps of a periodic capture that was started
SnapshotStep(i) ==
    \/ \E o \in Outcomes : SnapshotRendered(i, o)
    \/ \E o \in UploadOutcomes : SnapshotUploadSettled(i, o)
    \/ SnapshotLogSettled(i)

Initialize ==
    \/ \E h, s, a, u, d \in BOOLEAN : PerformSystemChecks(h, s, a, u, d)
    \/ SystemChecksDone
    \/ \E o \in {"granted", "disabled", "denied"} : RequestCameraAccess(o)
    \/ CameraDenied
    \/ InitializeSetup
    \/ InitializeLogs

\* the life of a session: set-up, camera monitor, cleanup
Next ==
    \/ Initialize
    \/ FullscreenEnter
    \/ CameraPoll
    \/ TrackEnded
    \/ TrackDisabled
    \/ Cleanup
    \/ Tick
    \/ SinkOutage
    \/ \E i \in TaskIds : SnapshotStep(i)

Spec == Init /\ [][Next]_vars

\* ---- the session once initialize() has returned true ----
\* the two snapshots that startSnapshotTimer takes at once (part_003:1663-1664)
\* were made and uploaded
FirstSnapshots(c) == IF c \in SnapshotTypes THEN 1 ELSE 0

Monitoring ==
    /\ initPc = "done" /\ listening = TRUE /\ permissionsGranted = TRUE
    /\ videoStream = "stream" /\ trackState = "live" /\ trackEnabled = TRUE
    /\ timers = {"devtools", "camera", "snapshot"}
    /\ streamMonitorTimer = "id" /\ snapshotTimer = "id"
    /\ checks = [html2canvas |-> TRUE, screenshotTest |-> TRUE,
                 adBlocker |-> TRUE, uploadEndpoint |-> TRUE,
                 devTools |-> TRUE]
    /\ logCount = [t \in LogTypes |->
          IF t \in {"system_check_completed", "camera_access_granted",
                    "ip_logged", "proctoring_initialized"} THEN 1 ELSE 0]
    /\ cameraDisabledWarningShown = FALSE
    /\ warningCount = 0 /\ fullscreenExitCount = 0
    /\ fullscreenRetryAttempts = 0 /\ isDisqualified = FALSE
    /\ lastEventScreenshot = [c \in Categories |-> 0]
    /\ windowHasFocus = TRUE /\ windowBlurTime = 0
    /\ devToolsWarningShown = FALSE /\ event = NoEvent
    /\ copyAttempts = 0 /\ pasteAttempts = 0 /\ selectAllAttempts = 0
    /\ selectionAttempts = 0 /\ rightClickCount = 0
    /\ now = StartTime /\ docFullscreen = FALSE /\ exitPending = FALSE
    /\ docHidden = FALSE /\ docFocused = TRUE /\ pointerEvents = "auto"
    /\ sinksUp = TRUE /\ navigated = FALSE
    /\ tasks = [i \in TaskIds |-> NoTask] /\ nTasks = 0
    /\ trig = [c \in Categories |-> NoTrigger]
    /\ captures = [c \in Categories \cup SnapshotTypes |-> FirstSnapshots(c)]
    /\ uploads = [c \in Categories \cup SnapshotTypes |-> FirstSnapshots(c)]
    /\ dropped = [c \in Categories \cup SnapshotTypes |-> 0]
    /\ posts = 0 /\ gets = 0 /\ autoSubmitStarts = 0 /\ disqBy = 0
    /\ cameraWarnings = 0 /\ cameraDetections = 0
    /\ dialogs = {} /\ cleanups = 0
    /\ viewer = NoViewer

\* the fullscreen engine of a monitored session
FsNext ==
    \/ FullscreenExit
    \/ FullscreenEnter
    \/ \E i \in TaskIds : FsStep(i)
    \/ PageUnloads
    \/ Tick
    \/ SinkOutage

\* the event loop runs every continuation that is ready: a timer that is due
\* fires, a settled request resumes its handler
FsSpec == Monitoring /\ [][FsNext]_vars
              /\ \A i \in TaskIds : WF_vars(FsStep(i))

\* the capture cooldown under the focus handlers
CapNext ==
    \/ VisibilityHidden
    \/ VisibilityVisible
    \/ WindowBlur
    \/ WindowFocus
    \/ \E i \in TaskIds : CaptureStep(i)
    \/ \E i \in TaskIds, o \in LogOutcomes : HandlerLogSettled(i, o)
    \/ Tick

CapSpec == Monitoring /\ [][CapNext]_vars

\* every handler that counts a violation, and the other lockdown handlers,
\* for the events that a handler acts on (KeySpec delivers the others too)
LockEvents ==
    \/ FullscreenExit
    \/ FullscreenEnter
    \/ VisibilityHidden
    \/ VisibilityVisible
    \/ ContextMenu
    \/ \E k \in Keys \ {"Tab"} : KeyDown(k, FALSE)
    \/ CopyEvent(FALSE)
    \/ PasteEvent(FALSE)
    \/ CutEvent(FALSE)
    \/ SelectStart(FALSE)
    \/ SelectionChange(TRUE, FALSE)
    \/ DragStart
    \/ \E open \in BOOLEAN : DevToolsPoll(open)

\* here an event is delivered when no handler is suspended; the handlers
\* that overlap are those of FsSpec and CapSpec
LockNext ==
    \/ Suspended = {} /\ LockEvents
    \/ \E i \in TaskIds : FsStep(i)
    \/ \E i \in TaskIds, o \in LogOutcomes : HandlerLogSettled(i, o)
    \/ \E i \in TaskIds, o \in LogOutcomes : DevToolsLogSettled(i, o)
    \/ PageUnloads

LockSpec == Monitoring /\ [][LockNext]_vars

\* a monitored session in which copy, paste, select-all, the context menu and
\* F12 were each tried k times with the keyboard or the mouse, outside a text
\* field, and every handler has finished: the attempts were counted and
\* logged, and the captures they asked for, one cooldown after the other from
\* the load of the page on, were made and uploaded
EarlierAt(n) ==
    IF n = 0 THEN 0 ELSE StartTime + (n - 1) * eventScreenshotCooldown

EarlierTrigger(n) ==
    IF n = 0 THEN NoTrigger
    ELSE [n |-> n, at |-> EarlierAt(n),
          gap |-> IF n = 1 THEN -1 ELSE eventScreenshotCooldown]

EarlierCaptures(k, cat) ==
    IF cat \in {"copy_attempt", "paste_attempt", "select_all_attempt"}
    THEN k \div 3
    ELSE IF cat = "right_click_violation" /\ k >= 3 THEN k - 2
    ELSE 0

EarlierLogs(k, type) ==
    IF type \in {"system_check_completed", "camera_access_granted",
                 "ip_logged", "proctoring_initialized"} THEN 1
    ELSE IF type \in {"copy_blocked", "paste_blocked", "select_all_blocked",
                      "right_click_blocked", "devtools_blocked"} THEN k
    ELSE 0

AfterAttempts(k) ==
    /\ initPc = "done" /\ listening = TRUE /\ permissionsGranted = TRUE
    /\ videoStream = "stream" /\ trackState = "live" /\ trackEnabled = TRUE
    /\ timers = {"devtools", "camera", "snapshot"}
    /\ streamMonitorTimer = "id" /\ snapshotTimer = "id"
    /\ checks = [html2canvas |-> TRUE, screenshotTest |-> TRUE,
                 adBlocker |-> TRUE, uploadEndpoint |-> TRUE,
                 devTools |-> TRUE]
    /\ logCount = [t \in LogTypes |-> EarlierLogs(k, t)]
    /\ cameraDisabledWarningShown = FALSE
    /\ warningCount = 0 /\ fullscreenExitCount = 0
    /\ fullscreenRetryAttempts = 0 /\ isDisqualified = FALSE
    /\ lastEventScreenshot =
          [c \in Categories |-> EarlierAt(EarlierCaptures(k, c))]
    /\ windowHasFocus = TRUE /\ windowBlurTime = 0
    /\ devToolsWarningShown = FALSE /\ event = NoEvent
    /\ copyAttempts = k /\ pasteAttempts = k /\ selectAllAttempts = k
    /\ selectionAttempts = 0 /\ rightClickCount = k
    /\ now = StartTime + MaxEarlier * eventScreenshotCooldown
    /\ docFullscreen = FALSE /\ exitPending = FALSE
    /\ docHidden = FALSE /\ docFocused = TRUE /\ pointerEvents = "auto"
    /\ sinksUp = TRUE /\ navigated = FALSE
    /\ tasks = [i \in TaskIds |-> NoTask] /\ nTasks = 0
    /\ trig = [c \in Categories |-> EarlierTrigger(EarlierCaptures(k, c))]
    /\ captures = [c \in Categories \cup SnapshotTypes |->
                      EarlierCaptures(k, c) + FirstSnapshots(c)]
    /\ uploads = [c \in Categories \cup SnapshotTypes |->
                     EarlierCaptures(k, c) + FirstSnapshots(c)]
    /\ dropped = [c \in Categories \cup SnapshotTypes |-> 0]
    /\ posts = 0 /\ gets = 0 /\ autoSubmitStarts = 0 /\ disqBy = 0
    /\ cameraWarnings = 0 /\ cameraDetections = 0
    /\ dialogs = {} /\ cleanups = 0
    /\ viewer = NoViewer

KeyInit == \E k \in 0..MaxEarlier : AfterAttempts(k)

\* the keyboard, clipboard, selection, drag and context-menu events, in and
\* outside a text field
KeyEvents ==
    \/ ContextMenu
    \/ \E k \in Keys, inInput \in BOOLEAN : KeyDown(k, inInput)
    \/ \E inInput \in BOOLEAN : CopyEvent(inInput)
    \/ \E inInput \in BOOLEAN : PasteEvent(inInput)
    \/ \E inInput \in BOOLEAN : CutEvent(inInput)
    \/ \E inInput \in BOOLEAN : SelectStart(inInput)
    \/ \E nonEmpty, inInput \in BOOLEAN : SelectionChange(nonEmpty, inInput)
    \/ DragStart

\* as in LockSpec an event is delivered when no handler is suspended
KeyNext ==
    \/ Suspended = {} /\ nTasks < MaxKeyEvents /\ KeyEvents
    \/ \E i \in TaskIds : CaptureStep(i)
    \/ \E i \in TaskIds, o \in LogOutcomes : HandlerLogSettled(i, o)

KeySpec == KeyInit /\ [][KeyNext]_vars

\* the developer-tools poll, whose timer fires whatever is awaited, next to
\* the tab-switch handlers
PollNext ==
    \/ \E open \in BOOLEAN : DevToolsPoll(open)
    \/ \E i \in TaskIds, o \in LogOutcomes : DevToolsLogSettled(i, o)
    \/ \E i \in TaskIds : CaptureStep(i)
    \/ VisibilityHidden
    \/ VisibilityVisible
    \/ \E i \in TaskIds, o \in LogOutcomes : HandlerLogSettled(i, o)
    \/ Tick

PollSpec == Monitoring /\ [][PollNext]_vars

\* the periodic captures next to the captures of the tab-switch handler,
\* with a camera that may be switched off
SnapNext ==
    \/ SnapshotTick
    \/ \E i \in TaskIds : SnapshotStep(i)
    \/ VisibilityHidden
    \/ VisibilityVisible
    \/ \E i \in TaskIds : CaptureStep(i)
    \/ \E i \in TaskIds, o \in LogOutcomes : HandlerLogSettled(i, o)
    \/ TrackDisabled
    \/ Tick

SnapSpec == Monitoring /\ [][SnapNext]_vars

\* the guards of the periodic captures: the object is as the constructor left
\* it, or holds a stream whose track is live, ended or disabled, with the
\* permission flag set or not yet, and the start-up probe has not run, has
\* failed or has passed
CameraFields ==
    {[stream |-> "none", granted |-> FALSE, track |-> "none",
      enabled |-> FALSE]}
    \cup {[stream |-> "stream", granted |-> g, track |-> t, enabled |-> e] :
             g \in BOOLEAN, t \in {"live", "ended"}, e \in BOOLEAN}

ProbeFields == {<<FALSE, FALSE>>, <<TRUE, FALSE>>, <<TRUE, TRUE>>}

GuardInit ==
    \E cam \in CameraFields, probe \in ProbeFields :
    /\ videoStream = cam.stream /\ permissionsGranted = cam.granted
    /\ trackState = cam.track /\ trackEnabled = cam.enabled
    /\ checks = [html2canvas |-> probe[1], screenshotTest |-> probe[2],
                 adBlocker |-> TRUE, uploadEndpoint |-> TRUE,
                 devTools |-> TRUE]
    /\ cameraDisabledWarningShown = FALSE
    /\ snapshotTimer = "null" /\ streamMonitorTimer = "null"
    /\ warningCount = 0 /\ fullscreenExitCount = 0
    /\ fullscreenRetryAttempts = 0 /\ isDisqualified = FALSE
    /\ lastEventScreenshot = [c \in Categories |-> 0]
    /\ windowHasFocus = TRUE /\ windowBlurTime = 0
    /\ devToolsWarningShown = FALSE /\ event = NoEvent
    /\ copyAttempts = 0 /\ pasteAttempts = 0 /\ selectAllAttempts = 0
    /\ selectionAttempts = 0 /\ rightClickCount = 0
    /\ now = StartTime /\ docFullscreen = FALSE /\ exitPending = FALSE
    /\ docHidden = FALSE /\ docFocused = TRUE
    /\ pointerEvents = "auto" /\ timers = {}
    /\ listening = FALSE
    /\ sinksUp = TRUE /\ navigated = FALSE
    /\ initPc = "new" /\ tasks = [i \in TaskIds |-> NoTask] /\ nTasks = 0
    /\ logCount = [t \in LogTypes |-> 0]
    /\ trig = [c \in Categories |-> NoTrigger]
    /\ captures = [c \in Categories \cup SnapshotTypes |-> 0]
    /\ uploads = [c \in Categories \cup SnapshotTypes |-> 0]
    /\ dropped = [c \in Categories \cup SnapshotTypes |-> 0]
    /\ posts = 0 /\ gets = 0 /\ autoSubmitStarts = 0 /\ disqBy = 0
    /\ cameraWarnings = 0 /\ cameraDetections = 0
    /\ dialogs = {} /\ cleanups = 0
    /\ viewer = NoViewer

GuardNext ==
    \/ PeriodicCaptures
    \/ \E i \in TaskIds : SnapshotStep(i)

GuardSpec == GuardInit /\ [][GuardNext]_vars

\* the violations that are counted or warned about: fullscreen exits, tab
\* switches, open developer tools, a camera that goes off
DisqEvents ==
    \/ FullscreenExit
    \/ FullscreenEnter
    \/ VisibilityHidden
    \/ VisibilityVisible
    \/ \E open \in BOOLEAN : DevToolsPoll(open)
    \/ CameraPoll
    \/ TrackEnded
    \/ TrackDisabled

\* as in LockSpec an event is delivered when no handler is suspended
DisqNext ==
    \/ Suspended = {} /\ DisqEvents
    \/ \E i \in TaskIds : FsStep(i)
    \/ \E i \in TaskIds, o \in LogOutcomes : HandlerLogSettled(i, o)
    \/ \E i \in TaskIds, o \in LogOutcomes : DevToolsLogSettled(i, o)
    \/ PageUnloads

DisqSpec == Monitoring /\ [][DisqNext]_vars

\* leaving the page and coming back after a while
AwayNext ==
    \/ VisibilityHidden
    \/ VisibilityVisible
    \/ WindowBlur
    \/ WindowFocus
    \/ \E i \in TaskIds : CaptureStep(i)
    \/ \E i \in TaskIds, o \in LogOutcomes : HandlerLogSettled(i, o)
    \/ \E ms \in AwayMs : Elapse(ms)

AwaySpec == Monitoring /\ [][AwayNext]_vars

\* ---- the fullscreen escalation ----
PastCapture == {"log", "dq_log", "dq_sleep", "dq_timer", "rs_sleep", "rs_req",
                "rs_log", "done"}
PastCheck == PastCapture \ {"log"}

FullscreenHandlers == {i \in TaskIds : tasks[i].kind = "fullscreen"}

SubmissionIssued == posts + gets > 0

\* C1: with maxFullscreenExits = N the session is disqualified by the handler
\* of the N-th exit and by no other: isDisqualified is false until that
\* handler makes its threshold test and true once it has made it.
C1_DisqualifiedByNthExit ==
    /\ isDisqualified => disqBy = maxFullscreenExits
    /\ \A i \in FullscreenHandlers :
          (tasks[i].ord = maxFullscreenExits /\ tasks[i].pc \in PastCheck)
             => isDisqualified

\* C2: autoSubmitTestDisqualified is started at most once in a session and
\* at most one forced submission is attempted.
C2_SingleForcedSubmission == autoSubmitStarts <= 1 /\ posts <= 1

\* C3: once the third exit has been counted (maxFullscreenExits = 3) the
\* session becomes disqualified, pointer events of the body are disabled and
\* a submission request (the POST, or the GET of the catch or of the 3 s
\* timer) is issued.
C3_ThirdExitSubmits ==
    (fullscreenExitCount >= maxFullscreenExits)
       ~> (isDisqualified /\ pointerEvents = "none" /\ SubmissionIssued)

\* C3 for a session whose sinks answer every request: the same, unless the
\* sinks have stopped answering.
C3_SubmitsWhileSinksAnswer ==
    (fullscreenExitCount >= maxFullscreenExits)
       ~> (~sinksUp \/ (isDisqualified /\ pointerEvents = "none"
                           /\ SubmissionIssued))

\* C3, the case: the third exit was handled with answering sinks, the form
\* was posted and the 3 s timer fell back to the GET
C3_Witness ==
    /\ sinksUp /\ fullscreenExitCount = maxFullscreenExits
    /\ isDisqualified /\ pointerEvents = "none" /\ posts > 0 /\ gets > 0

\* C4: the escalation does not depend on the sinks: when the N-th exit has
\* been counted and the sinks answer no request any more, the session still
\* becomes disqualified and a submission request is still issued.
C4_EscalatesWithoutSinks ==
    (fullscreenExitCount >= maxFullscreenExits /\ ~sinksUp)
       ~> (isDisqualified /\ SubmissionIssued)

\* C5: no failure of a capture or of a sink ends a handler: no handler is
\* ended by an exception, every counted exit has a handler, and every handler
\* that is past its capture has issued its fullscreen_exit log and goes on to
\* the threshold test.
C5_FailuresContained ==
    /\ \A i \in TaskIds : tasks[i].pc # "thrown"
    /\ fullscreenExitCount = Cardinality(FullscreenHandlers)
    /\ logCount["fullscreen_exit"] =
          Cardinality({i \in FullscreenHandlers : tasks[i].pc \in PastCapture})

\* C5, the case: a render has thrown, the failure was reported, and the
\* handler has logged and made its threshold test
C5_Witness ==
    /\ nTasks = 1 /\ dropped["fullscreen_exit"] = 1
    /\ logCount["event_screenshot_failed"] = 1
    /\ logCount["fullscreen_exit"] = 1
    /\ tasks[1].pc = "rs_sleep"

\* ---- the counters ----
\* C6: no violation counter ever decreases and isDisqualified, once set, is
\* never reset.
C6_CountersNeverDecrease ==
    [][ /\ warningCount' >= warningCount
        /\ fullscreenExitCount' >= fullscreenExitCount
        /\ copyAttempts' >= copyAttempts
        /\ pasteAttempts' >= pasteAttempts
        /\ selectAllAttempts' >= selectAllAttempts
        /\ selectionAttempts' >= selectionAttempts
        /\ rightClickCount' >= rightClickCount
        /\ (isDisqualified => isDisqualified') ]_vars

\* C6, the case: the session was disqualified by three counted exits, every
\* handler has ended, and selections were counted in between
C6_Witness ==
    /\ isDisqualified /\ fullscreenExitCount = maxFullscreenExits
    /\ selectionAttempts >= maxWarnings
    /\ \A i \in TaskIds : tasks[i].pc = "done"

\* ---- the capture cooldown ----
Rendering(c) ==
    Cardinality({i \in TaskIds :
                    tasks[i].pc = "cap_render" /\ tasks[i].cat = c})

Capturing(c) ==
    {i \in TaskIds : tasks[i].pc \in {"cap_render", "cap_upload", "cap_faillog"}
                       /\ tasks[i].cat = c}

\* C7: of two triggers of one category less than the cooldown apart exactly
\* one starts a capture, of two triggers at least the cooldown apart each
\* starts one; a capture that was started issues exactly one upload unless
\* its render throws or its encoding yields no blob, and then it issues none.
C7_CooldownPerTrigger ==
    \A c \in Categories :
       /\ trig[c].n = 1 => captures[c] = 1
       /\ trig[c].n = 2 =>
             captures[c] = IF trig[c].gap < eventScreenshotCooldown
                           THEN 1 ELSE 2
       /\ uploads[c] + dropped[c] + Rendering(c) = captures[c]

\* C7, the case: three blurs, the second within the cooldown of the first
\* and suppressed, the third at the cooldown after the first and uploaded
C7_Witness ==
    /\ trig["window_blur"].n = 3
    /\ trig["window_blur"].gap < eventScreenshotCooldown
    /\ lastEventScreenshot["window_blur"] = trig["window_blur"].at
    /\ captures["window_blur"] = 2 /\ uploads["window_blur"] = 2

\* C7 as stated: two triggers within the cooldown give exactly one upload,
\* two triggers at least the cooldown apart give one upload each.
C7_OneUploadPerWindow ==
    \A c \in Categories :
       (trig[c].n = 2 /\ Capturing(c) = {}) =>
          uploads[c] = IF trig[c].gap < eventScreenshotCooldown THEN 1 ELSE 2

\* C8: the cooldown is kept per category: the time of the last capture of a
\* category changes only with a trigger of that category, and a trigger is
\* suppressed only by the last capture of its own category.
C8_CooldownPerCategory ==
    [][ \A c \in Categories :
          /\ lastEventScreenshot'[c] # lastEventScreenshot[c]
                => trig'[c].n = trig[c].n + 1
          /\ trig'[c].n = trig[c].n + 1
                => captures'[c] = captures[c]
                      + (IF now - lastEventScreenshot[c]
                              < eventScreenshotCooldown THEN 0 ELSE 1) ]_vars

\* C8, the case: a blur is captured less than the cooldown after a tab
\* switch was, and the tab switch keeps its own time
C8_Witness ==
    /\ trig["tab_switch"].n = 1 /\ trig["window_blur"].n = 1
    /\ captures["tab_switch"] = 1 /\ captures["window_blur"] = 1
    /\ lastEventScreenshot["window_blur"] > lastEventScreenshot["tab_switch"]
    /\ lastEventScreenshot["window_blur"] - lastEventScreenshot["tab_switch"]
          < eventScreenshotCooldown

\* ---- the camera monitor and cleanup ----
\* C9: the camera-disabled overlay is shown and camera_disabled is logged
\* at most once in a session, however often the camera is found off.
C9_CameraWarningOnce ==
    /\ cameraWarnings <= 1
    /\ logCount["camera_disabled"] = cameraWarnings
    /\ cameraDetections > 0 => cameraWarnings = 1

\* C9, the case: the poll and the 'ended' listener have found the camera off
\* several times
C9_Witness ==
    /\ cameraDetections = MaxDetections /\ cameraWarnings = 1
    /\ trackState = "ended" /\ ~trackEnabled

\* C10: a call of cleanup() on an initialized session leaves no interval
\* timer of initialize() active and no camera track live.
C10_CleanupStopsEverything ==
    [][ (cleanups' = cleanups + 1 /\ initPc = "done")
           => (timers' = {} /\ trackState' # "live") ]_vars

\* ---- cleanup called again ----
\* a further call of cleanup() would find nothing to clear, stop or leave
Cleaned ==
    /\ (timers \ ClearedBy(streamMonitorTimer, "camera"))
           \ ClearedBy(snapshotTimer, "snapshot") = timers
    /\ Stopped(videoStream, trackState) = trackState
    /\ ExitRequested(docFullscreen, exitPending) = exitPending

CameraFailed ==
    \/ logCount["camera_access_denied"] > 0
    \/ videoStream # "none" /\ logCount["camera_access_granted"] = 0

\* the events logged with severity 'critical' on the way through
\* initialize() (part_003:617, 797)
CriticalLogged ==
    logCount["camera_access_denied"] + logCount["camera_permission_denied"]

\* C12: when the camera is denied or gives no enabled video track,
\* initialize() does not go on: it ends with false and with the permission
\* error dialog shown, no interval timer is started and no listener is
\* registered.
C12_CameraFailureStopsInitialize ==
    CameraFailed =>
        /\ initPc \in {"denied_log", "failed"}
        /\ initPc = "failed" => "permission_error" \in dialogs
        /\ permissionsGranted = FALSE
        /\ timers = {} /\ snapshotTimer = "null"
        /\ streamMonitorTimer = "null"
        /\ listening = FALSE

\* C12, the case: getUserMedia was rejected and initialize() has returned
C12_Witness ==
    /\ initPc = "failed" /\ logCount["camera_access_denied"] = 1
    /\ "permission_error" \in dialogs /\ videoStream = "none"

\* C13: when camera permission is denied at start, exactly one event of
\* severity critical has been sent to the event sink when initialize()
\* returns.
C13_OneCriticalLog ==
    (initPc = "failed" /\ logCount["camera_access_denied"] > 0)
        => CriticalLogged = 1

\* ---- the system checks as a gate ----
\* performSystemChecks has run its checks
ChecksRan == initPc # "new"

\* one of the four gating checks has failed
GateFailed ==
    /\ ChecksRan
    /\ \/ ~checks.html2canvas \/ ~checks.screenshotTest
       \/ ~checks.uploadEndpoint \/ ~checks.devTools

\* the checks that ran and gave a negative result (part_003:278-290): the
\* render test runs only when the library is present
FailedChecks(c) ==
    (IF ~c.html2canvas THEN <<"html2canvas">> ELSE <<>>)
    \o (IF c.html2canvas /\ ~c.screenshotTest
        THEN <<"screenshotTest">> ELSE <<>>)
    \o (IF ~c.uploadEndpoint THEN <<"uploadEndpoint">> ELSE <<>>)
    \o (IF ~c.adBlocker THEN <<"adBlocker">> ELSE <<>>)
    \o (IF ~c.devTools THEN <<"devTools">> ELSE <<>>)

\* only the named check has a negative result
OnlyFailed(name) ==
    /\ ChecksRan
    /\ \A k \in DOMAIN checks : checks[k] = (k # name)

\* C14: each of the four gating checks is a hard gate. When the rendering
\* library is missing, the render test fails, the upload endpoint is
\* unreachable or developer tools are open, initialize() ends with false
\* behind the blocking dialog: the camera is never requested, no timer is
\* started and no listener registered.
C14_ChecksAreHardGates ==
    GateFailed =>
        /\ initPc \in {"checks_log", "failed"}
        /\ initPc = "failed" => "system_check_error" \in dialogs
        /\ videoStream = "none" /\ permissionsGranted = FALSE
        /\ logCount["camera_access_granted"] = 0
        /\ logCount["camera_access_denied"] = 0
        /\ timers = {} /\ snapshotTimer = "null"
        /\ streamMonitorTimer = "null"
        /\ listening = FALSE

\* C14, the case: developer tools are open, every other check passed, and
\* initialize() has returned false
C14_Witness ==
    /\ OnlyFailed("devTools") /\ initPc = "failed"
    /\ "system_check_error" \in dialogs

\* C15: the blocking dialog lists exactly the checks that failed, one entry
\* for each check with a negative result and none for any other check; when
\* only the rendering library is absent the list is the rendering-library
\* failure alone.
C15_DialogListsFailedChecks ==
    "system_check_error" \in dialogs
        => CriticalFailures(checks) = FailedChecks(checks)

\* C16: an ad blocker alone does not gate. When the ad-blocker check is the
\* only one that fails, performSystemChecks returns true: the advisory is
\* shown, the blocking dialog is not, and initialize() goes on to the camera.
C16_AdBlockerAloneDoesNotGate ==
    (OnlyFailed("adBlocker") /\ initPc # "checks_log")
        => /\ "adblocker_warning" \in dialogs
           /\ "system_check_error" \notin dialogs
           /\ initPc # "failed"

\* ---- the away time ----
\* the handlers that have logged a return and await the sink
ReturnLogs ==
    {i \in TaskIds : /\ tasks[i].pc = "log"
                     /\ tasks[i].log \in {"tab_returned",
                                          "window_focus_returned"}}

\* C17: the away time logged on return (tab_returned, window_focus_returned)
\* has severity warning when it is more than 30 whole seconds and info
\* otherwise: 45 gives warning, 10 gives info, 30 gives info.
C17_AwaySeverity ==
    \A i \in ReturnLogs :
        /\ tasks[i].away >= 0
        /\ tasks[i].severity = "warning" <=> tasks[i].away > 30
        /\ tasks[i].severity = "info" <=> tasks[i].away <= 30
        /\ tasks[i].away = 45 => tasks[i].severity = "warning"
        /\ tasks[i].away = 10 => tasks[i].severity = "info"
        /\ tasks[i].away = 30 => tasks[i].severity = "info"

\* C17, the case: a return after exactly 30 seconds was logged as info
C17_Witness ==
    \E i \in ReturnLogs :
        /\ tasks[i].away = 30 /\ tasks[i].severity = "info"
        /\ now - windowBlurTime = 30000

\* ---- the order of the logs ----
\* a handler that has started and has not yet issued its own log request:
\* it awaits captureEventScreenshot
BeforeOwnLog == {i \in TaskIds :
                    tasks[i].pc \in {"cap_render", "cap_upload", "cap_faillog"}}

\* C18: events are logged in the order their handlers run. Handlers are
\* numbered in the order they start; when a handler issues its log request,
\* no handler that started before it is still ahead of its own log.
C18_LogsInHandlerOrder ==
    [][ \A j \in TaskIds :
          (tasks[j].pc # "log" /\ tasks'[j].pc = "log")
              => \A i \in BeforeOwnLog : i >= j ]_vars

\* ---- check and set in one turn ----
\* a step in which a handler sets isDisqualified and starts the forced
\* submission (part_003:992-1005)
Disqualifies == autoSubmitStarts' = autoSubmitStarts + 1

\* C19: shared state is read and written within one turn of the event loop,
\* the isDisqualified guard and its setting included: the handler that sets
\* isDisqualified does so in a state in which the guard it passed still
\* holds, so the flag is set once, by one handler.
C19_GuardAndSetInOneTurn ==
    [][ Disqualifies => (~isDisqualified /\ isDisqualified') ]_vars

CriticalExitLogged ==
    {i \in FullscreenHandlers : tasks[i].severity = "critical"}

\* the part of the order that follows the setting of isDisqualified: frozen
\* once disqualified, exam_disqualified logged once frozen, a submission
\* request only after both
FrozenBeforeSubmission ==
    /\ pointerEvents = "none" <=> isDisqualified
    /\ logCount["exam_disqualified"] > 0 <=> isDisqualified
    /\ SubmissionIssued =>
          (isDisqualified /\ pointerEvents = "none"
             /\ logCount["exam_disqualified"] > 0)

\* C21: the disqualification sequence runs in a fixed order. The critical
\* fullscreen_exit event has been logged when isDisqualified is set; then
\* pointer events are disabled and exam_disqualified is logged; the POST is
\* attempted only after that, and no submission request is issued before
\* interaction is frozen.
C21_DisqualificationOrder ==
    /\ []FrozenBeforeSubmission
    /\ [][ Disqualifies => CriticalExitLogged # {} ]_vars

\* C21 without its first step: from the setting of isDisqualified on, the
\* order is kept in every interleaving
C21_OrderAfterDisqualified == FrozenBeforeSubmission

\* the case of C21_OrderAfterDisqualified: the POST was issued
C21_Witness ==
    /\ posts = 1 /\ isDisqualified /\ pointerEvents = "none"
    /\ logCount["exam_disqualified"] = 1

\* ---- below the threshold and at it ----
\* the fullscreen handlers that have issued their fullscreen_exit log
LoggedExit == {i \in FullscreenHandlers : tasks[i].severity # "none"}

RestorePcs == {"rs_sleep", "rs_req", "rs_log"}
SubmitPcs == {"dq_log", "dq_sleep", "dq_timer"}

\* C22: the handler of an exit whose running count is below maxFullscreenExits
\* logs fullscreen_exit with severity warning and goes on to
\* restoreFullscreenWithRetry; the handler of the exit that reaches the
\* threshold logs severity critical and never attempts to re-enter
\* fullscreen.
C22_WarningBelowCriticalAt ==
    \A i \in LoggedExit :
        IF tasks[i].ord < maxFullscreenExits
        THEN tasks[i].severity = "warning" /\ tasks[i].pc \notin SubmitPcs
        ELSE tasks[i].severity = "critical" /\ tasks[i].pc \notin RestorePcs

\* the case of C22 in a session that handles one exit after the other: the
\* third exit was logged as critical and its handler is submitting
C22_Witness ==
    \E i \in LoggedExit :
        /\ tasks[i].ord = maxFullscreenExits /\ tasks[i].pc \in SubmitPcs
        /\ tasks[i].severity = "critical"

\* ---- the retries of one restoreFullscreenWithRetry ----
\* the invocations of restoreFullscreenWithRetry in progress
Restoring == {i \in FullscreenHandlers : tasks[i].pc \in RestorePcs}

\* C23: one invocation of restoreFullscreenWithRetry makes at most
\* maxFullscreenRetries fullscreen requests, whatever the requests do and
\* whatever fullscreen exits arrive while it sleeps, and it logs
\* fullscreen_restore_failed only when every attempt has failed.
C23_RetriesBounded ==
    \A i \in Restoring :
        /\ tasks[i].tries <= maxFullscreenRetries
        /\ tasks[i].pc = "rs_log" => tasks[i].tries >= 1

\* C24: the waits between the attempts of one restoreFullscreenWithRetry
\* follow an exponential backoff: each wait before a retry is at least twice
\* the wait before the previous retry.
C24_ExponentialBackoff ==
    [][ \A i \in TaskIds :
          (tasks[i].pc = "rs_req" /\ tasks'[i].pc = "rs_sleep"
             /\ tasks[i].wait > 0)
          => tasks'[i].wait >= 2 * tasks[i].wait ]_vars

\* ---- copy, paste and select-all attempts ----
Actions == {"copy", "paste", "select_all"}

\* the events that are an attempt at an action: its keyboard shortcut and,
\* for copy and paste, the native clipboard event (part_003:1288, 1308, 1328,
\* 1373, 1402)
EventsOf(a) ==
    CASE a = "copy" -> {"Ctrl+C", "Ctrl+Shift+C", "copy"}
      [] a = "paste" -> {"Ctrl+V", "paste"}
      [] a = "select_all" -> {"Ctrl+A"}

\* this.copyAttempts, this.pasteAttempts, this.selectAllAttempts
Attempts(a) ==
    CASE a = "copy" -> copyAttempts
      [] a = "paste" -> pasteAttempts
      [] a = "select_all" -> selectAllAttempts

\* the category of the event screenshot and the types of the logs of an action
CategoryOf(a) ==
    CASE a = "copy" -> "copy_attempt"
      [] a = "paste" -> "paste_attempt"
      [] a = "select_all" -> "select_all_attempt"

LogsOf(a) ==
    CASE a = "copy" -> {"copy_blocked", "copy_event_blocked"}
      [] a = "paste" -> {"paste_blocked", "paste_event_blocked"}
      [] a = "select_all" -> {"select_all_blocked"}

RECURSIVE LogsIssued(_)
LogsIssued(types) ==
    IF types = {} THEN 0
    ELSE LET t == CHOOSE x \in types : TRUE
         IN logCount[t] + LogsIssued(types \ {t})

\* the handlers of an action that still await the capture made before the log
InCapture(a) ==
    {i \in TaskIds : /\ tasks[i].log \in LogsOf(a)
                     /\ tasks[i].pc \in {"cap_render", "cap_upload",
                                         "cap_faillog"}}

\* C25: for copy, paste and select-all, every blocked attempt (the keyboard
\* shortcut or the native clipboard event, outside a text field) adds exactly
\* one to the counter of its action, asks for an event screenshot exactly
\* when the new count is a multiple of 3, and is logged: at any time the
\* counted attempts are the logs issued plus the handlers still awaiting
\* their capture.
C25_AttemptsCountedCapturedLogged ==
    /\ [](\A a \in Actions :
            Attempts(a) = LogsIssued(LogsOf(a)) + Cardinality(InCapture(a)))
    /\ [][ \A a \in Actions :
             (event'.name \in EventsOf(a) /\ ~event'.inInput)
             => /\ Attempts(a)' = Attempts(a) + 1
                /\ trig'[CategoryOf(a)].n =
                      trig[CategoryOf(a)].n
                      + (IF Attempts(a)' % 3 = 0 THEN 1 ELSE 0) ]_vars

\* a native copy event was the third attempt and was captured and logged,
\* the shortcut that follows is the fourth and asks for nothing
C25_Witness ==
    /\ event.name = "Ctrl+C" /\ ~event.inInput
    /\ copyAttempts = 4 /\ trig["copy_attempt"].n = 1
    /\ logCount["copy_event_blocked"] = 1

\* ---- events in a text field ----
\* the copy, paste, cut, select-all and select-start events (part_003:1186,
\* 1288, 1308, 1328, 1374, 1403, 1431)
ExemptEvents == {"Ctrl+C", "Ctrl+V", "Ctrl+A", "copy", "paste", "cut",
                 "selectstart"}

\* C26: a copy, paste, cut, select-all or select-start event whose target is
\* an INPUT or a TEXTAREA is exempt: its delivery changes no counter, asks for
\* no screenshot, issues no log, starts no handler that awaits, and the
\* default action of the event is not prevented.
C26_TextFieldsExempt ==
    [][ (event'.inInput /\ event'.name \in ExemptEvents)
        => /\ ~event'.prevented
           /\ UNCHANGED <<counterVars, trig, captures, uploads, logCount,
                          tasks, nTasks>> ]_vars

\* Ctrl+C in a text field after two counted copy attempts: the third one
\* counted would be captured
C26_Witness ==
    /\ event = Delivered("Ctrl+C", TRUE, FALSE)
    /\ copyAttempts = 2 /\ trig["copy_attempt"].n = 0
    /\ logCount["copy_blocked"] = 2

\* ---- right-clicks ----
RightClickHandlers == {i \in TaskIds : tasks[i].kind = "contextmenu"}

\* the contextmenu handlers that still await their capture
RightClickInCapture ==
    {i \in RightClickHandlers :
        tasks[i].pc \in {"cap_render", "cap_upload", "cap_faillog"}}

\* C27: every right-click is suppressed and logged; an event screenshot is
\* requested for the third right-click and for every later one, not for the
\* first two; the log has severity info for the first two right-clicks and
\* warning from the third.
C27_RightClicks ==
    /\ [](/\ rightClickCount = logCount["right_click_blocked"]
                               + Cardinality(RightClickInCapture)
          /\ trig["right_click_violation"].n =
                IF rightClickCount >= 3 THEN rightClickCount - 2 ELSE 0
          /\ \A i \in RightClickHandlers :
                tasks[i].pc = "log"
                => tasks[i].severity =
                      IF tasks[i].ord >= 3 THEN "warning" ELSE "info")
    /\ [][ event'.name = "contextmenu"
           => /\ event'.prevented
              /\ rightClickCount' = rightClickCount + 1 ]_vars

\* the fourth right-click has asked for its screenshot, as the third did, and
\* is logged as a warning
C27_Witness ==
    /\ rightClickCount = 4 /\ trig["right_click_violation"].n = 2
    /\ \E i \in RightClickHandlers :
          tasks[i].pc = "log" /\ tasks[i].ord = 4
                              /\ tasks[i].severity = "warning"

\* ---- the developer-tools shortcuts ----
\* a keydown of a developer-tools shortcut is delivered in this step
DevToolsShortcut == DevToolsKey(event'.name)

\* the default action of every developer-tools shortcut is prevented
C28_ShortcutsSuppressed == [][ DevToolsShortcut => event'.prevented ]_vars

\* every developer-tools shortcut is logged as devtools_blocked
C28_ShortcutsLoggedAsDevTools ==
    [][ DevToolsShortcut
        => logCount'["devtools_blocked"] = logCount["devtools_blocked"] + 1
      ]_vars

\* from the third logged shortcut on an event screenshot is requested
C28_ScreenshotAfterRepeats ==
    [][ (DevToolsShortcut /\ logCount'["devtools_blocked"] >= 3)
        => trig'["devtools_violation"].n > trig["devtools_violation"].n ]_vars

\* F12, and Ctrl+Shift+C in a text field, are suppressed and logged as
\* devtools_blocked in the turn of the event
C28_F12SuppressedAndLogged ==
    [][ (DevToolsShortcut /\ (event'.name = "F12" \/ event'.inInput))
        => /\ event'.prevented
           /\ logCount'["devtools_blocked"] = logCount["devtools_blocked"] + 1
      ]_vars

\* C28: every keydown of a developer-tools shortcut (F12, Ctrl+Shift+I/J/C,
\* Ctrl+U) is suppressed and logged as a developer-tools attempt, and after
\* repeated attempts an event screenshot is requested.
C28_DevToolsShortcuts ==
    /\ C28_ShortcutsSuppressed
    /\ C28_ShortcutsLoggedAsDevTools
    /\ C28_ScreenshotAfterRepeats

\* ---- the developer-tools poll ----
DevToolsReactions == {i \in TaskIds : tasks[i].kind = "devtools"}

\* the alert is the last statement of the reaction (part_003:644-648)
DevToolsAlerts == {i \in DevToolsReactions : tasks[i].pc = "done"}

\* C29: the poll reacts once in a session. The first tick that detects open
\* developer tools issues the devtools_opened_during_exam log, with severity
\* critical, then one screenshot request, then one alert; no tick after it
\* issues any of them again, whether the first reaction has finished or still
\* awaits its log or its capture.
C29_PollReactsOnce ==
    /\ Cardinality(DevToolsReactions) <= 1
    /\ logCount["devtools_opened_during_exam"] =
          IF devToolsWarningShown THEN 1 ELSE 0
    /\ trig["devtools_violation"].n <= logCount["devtools_opened_during_exam"]
    /\ Cardinality(DevToolsAlerts) <= trig["devtools_violation"].n
    /\ \A i \in DevToolsReactions :
          tasks[i].pc = "log" => tasks[i].severity = "critical"

\* the reaction has logged, asked for its screenshot and shown the alert
\* while time went by and the tab was switched
C29_Witness ==
    /\ DevToolsAlerts # {}
    /\ logCount["devtools_opened_during_exam"] = 1
    /\ trig["devtools_violation"].n = 1
    /\ now > StartTime /\ warningCount > 0

\* ---- one upload for one capture ----
\* the invocations of a capture operation that are past their guards and have
\* not yet produced their image or failed to
CapturesRendering(c) ==
    {i \in TaskIds :
        \/ tasks[i].pc = "cap_render" /\ tasks[i].cat = c
        \/ tasks[i].pc = "snap_render" /\ tasks[i].kind = c}

UploadPcs == {"cap_upload", "snap_upload"}

\* C30: an invocation of captureEventScreenshot, captureScreenshot or
\* captureWebcamSnapshot issues one upload when its capture produced an image
\* and none when it did not, so that for every category the invocations are
\* the uploads issued, the captures that failed and those still rendering;
\* when its upload settles, with whatever result, the invocation issues no
\* other upload and does not capture again.
C30_OneUploadPerCapture ==
    /\ [](\A c \in Categories \cup SnapshotTypes :
            captures[c] = uploads[c] + dropped[c]
                          + Cardinality(CapturesRendering(c)))
    /\ [][ \A i \in TaskIds :
             (tasks[i].pc \in UploadPcs /\ tasks'[i].pc # tasks[i].pc)
             => /\ uploads' = uploads
                /\ tasks'[i].pc \notin {"cap_render", "snap_render"} ]_vars

\* a tick of the snapshot timer and a tab switch: the webcam snapshot and the
\* event screenshot were uploaded, the screen capture failed and was dropped
C30_Witness ==
    /\ Suspended = {}
    /\ captures["webcam"] = 2 /\ uploads["webcam"] = 2
    /\ captures["screen"] = 2 /\ dropped["screen"] = 1
    /\ captures["tab_switch"] = 1 /\ uploads["tab_switch"] = 1

\* ---- the guards of the periodic captures ----
\* the two captures are called in this step
CapturesCalled == nTasks' = nTasks + 2

\* C31: captureWebcamSnapshot called with no stream, without the permission
\* flag, or with a track that is ended or disabled returns at once: it starts
\* no capture, so issues no upload, and ends without an exception.
\* captureScreenshot called when html2canvas is missing or the render probe
\* did not pass starts no capture and logs screenshot_skipped. An upload is
\* only ever issued by a capture that passed its guard.
C31_PeriodicCapturesGuarded ==
    /\ [](\A c \in SnapshotTypes : uploads[c] <= captures[c])
    /\ [][ CapturesCalled
           => /\ (\/ videoStream = "none" \/ ~permissionsGranted
                  \/ trackState # "live" \/ ~trackEnabled)
                 => /\ captures'["webcam"] = captures["webcam"]
                    /\ tasks'[nTasks + 1].pc = "done"
              /\ (~checks.html2canvas \/ ~checks.screenshotTest)
                 => /\ captures'["screen"] = captures["screen"]
                    /\ tasks'[nTasks + 2].pc = "snap_log"
                    /\ logCount'["screenshot_skipped"] =
                          logCount["screenshot_skipped"] + 1 ]_vars

\* the stream is there and granted but its track is disabled, and the probe
\* failed: both calls have returned, nothing was captured or uploaded, the
\* skip was logged
C31_Witness ==
    /\ videoStream = "stream" /\ permissionsGranted /\ trackState = "live"
    /\ ~trackEnabled /\ ~checks.screenshotTest
    /\ nTasks = 2 /\ Suspended = {}
    /\ tasks[1].pc = "done" /\ tasks[2].pc = "done"
    /\ logCount["screenshot_skipped"] = 1
    /\ \A c \in SnapshotTypes : captures[c] = 0 /\ uploads[c] = 0

\* ---- static/js/proctoring.js: one cooldown for every category ----
\* this.lastEventScreenshotTime (proctoring.js:25): the class keeps one time,
\* held here in every entry of lastEventScreenshot
LastEventScreenshotTime(les, cat) == les[cat]

\* this.lastEventScreenshotTime = now (proctoring.js:1134)
RecordCaptureTime(les, t) == [c \in DOMAIN les |-> t]

\* captureEventScreenshot of proctoring.js up to its first await
\* (proctoring.js:1121-1136)
StaticCallCapture(i, t, cat) ==
    /\ trig' = [trig EXCEPT ![cat] = Triggered(@, now)]
    /\ UNCHANGED <<uploads, dropped>>
    /\ IF now - LastEventScreenshotTime(lastEventScreenshot, cat)
             < eventScreenshotCooldown
       THEN /\ UNCHANGED <<lastEventScreenshot, captures>>
            /\ AfterCapture(i, t)
       ELSE /\ lastEventScreenshot' =
                   RecordCaptureTime(lastEventScreenshot, now)
            /\ captures' = [captures EXCEPT ![cat] = @ + 1]
            /\ tasks' = [tasks EXCEPT ![i] =
                            [t EXCEPT !.pc = "cap_render", !.cat = cat]]
            /\ UNCHANGED logCount

\* visibilitychange with document.hidden (proctoring.js:925-950)
StaticVisibilityHidden ==
    /\ Alive /\ listening /\ ~docHidden
    /\ docHidden' = TRUE
    /\ warningCount' = Increment(warningCount)
    /\ CanDispatch
    /\ nTasks' = nTasks + 1
    /\ StaticCallCapture(nTasks + 1, Handler("visibility", "tab_switched"),
                         "tab_switch")
    /\ event' = NoEvent
    /\ UNCHANGED <<camVars, timerVars, initVars, viewer, fsVars, copyAttempts,
                   pasteAttempts, selectAllAttempts, selectionAttempts,
                   rightClickCount, windowHasFocus, windowBlurTime, docFocused,
                   devToolsWarningShown, envVars>>

\* the window loses focus (proctoring.js:970-985)
StaticWindowBlur ==
    /\ Alive /\ listening /\ docFocused
    /\ docFocused' = FALSE
    /\ CanDispatch
    /\ nTasks' = nTasks + 1
    /\ StaticCallCapture(nTasks + 1, Handler("blur", "window_blur"),
                         "window_blur")
    /\ event' = NoEvent
    /\ UNCHANGED <<camVars, timerVars, initVars, viewer, fsVars, counterVars,
                   windowHasFocus, windowBlurTime, docHidden,
                   devToolsWarningShown, envVars>>

\* the focus handlers of proctoring.js over its capture
StaticNext ==
    \/ StaticVisibilityHidden
    \/ VisibilityVisible
    \/ StaticWindowBlur
    \/ WindowFocus
    \/ \E i \in TaskIds : CaptureStep(i)
    \/ \E i \in TaskIds, o \in LogOutcomes : HandlerLogSettled(i, o)
    \/ Tick

StaticSpec == Monitoring /\ [][StaticNext]_vars

\* C32: in static/js/proctoring.js the cooldown is applied per category: a
\* trigger of a category that had no trigger of its own within the cooldown
\* is captured, whatever was captured for another category in that time.
C32_StaticCooldownPerCategory ==
    [][ \A c \in Categories :
          (/\ trig'[c].n = trig[c].n + 1
           /\ trig[c].n = 0 \/ now - trig[c].at >= eventScreenshotCooldown)
             => captures'[c] = captures[c] + 1 ]_vars

\* ---- the metadata of the k-th exit ----
\* C33: the fullscreen_exit log of the k-th exit carries exit_count k and the
\* severity that belongs to k, also when a further exit was handled while the
\* handler of the k-th was waiting for its screenshot.
C33_ExitLogCarriesOwnCount ==
    \A i \in LoggedExit :
        /\ tasks[i].count = tasks[i].ord
        /\ tasks[i].severity =
              (IF tasks[i].ord >= maxFullscreenExits THEN "critical"
               ELSE "warning")

\* ---- a session that has left fullscreen before ----
\* a monitored session after k exits, one cooldown after the other from the
\* load of the page on: each was captured and logged, and the first attempt
\* of its restoreFullscreenWithRetry put the document back in fullscreen
ExitLogs(k, type) ==
    IF type \in {"system_check_completed", "camera_access_granted",
                 "ip_logged", "proctoring_initialized"} THEN 1
    ELSE IF type = "fullscreen_exit" THEN k
    ELSE 0

ExitsOf(k, c) == IF c = "fullscreen_exit" THEN k ELSE 0

AfterExits(k) ==
    /\ initPc = "done" /\ listening = TRUE /\ permissionsGranted = TRUE
    /\ videoStream = "stream" /\ trackState = "live" /\ trackEnabled = TRUE
    /\ timers = {"devtools", "camera", "snapshot"}
    /\ streamMonitorTimer = "id" /\ snapshotTimer = "id"
    /\ checks = [html2canvas |-> TRUE, screenshotTest |-> TRUE,
                 adBlocker |-> TRUE, uploadEndpoint |-> TRUE,
                 devTools |-> TRUE]
    /\ logCount = [t \in LogTypes |-> ExitLogs(k, t)]
    /\ cameraDisabledWarningShown = FALSE
    /\ warningCount = 0 /\ fullscreenExitCount = k
    /\ fullscreenRetryAttempts = (IF k = 0 THEN 0 ELSE 1)
    /\ isDisqualified = FALSE
    /\ lastEventScreenshot = [c \in Categories |-> EarlierAt(ExitsOf(k, c))]
    /\ windowHasFocus = TRUE /\ windowBlurTime = 0
    /\ devToolsWarningShown = FALSE /\ event = NoEvent
    /\ copyAttempts = 0 /\ pasteAttempts = 0 /\ selectAllAttempts = 0
    /\ selectionAttempts = 0 /\ rightClickCount = 0
    /\ now = StartTime + MaxEarlier * eventScreenshotCooldown
    /\ docFullscreen = TRUE /\ exitPending = FALSE
    /\ docHidden = FALSE /\ docFocused = TRUE /\ pointerEvents = "auto"
    /\ sinksUp = TRUE /\ navigated = FALSE
    /\ tasks = [i \in TaskIds |-> NoTask] /\ nTasks = 0
    /\ trig = [c \in Categories |-> EarlierTrigger(ExitsOf(k, c))]
    /\ captures = [c \in Categories \cup SnapshotTypes |->
                      ExitsOf(k, c) + FirstSnapshots(c)]
    /\ uploads = [c \in Categories \cup SnapshotTypes |->
                     ExitsOf(k, c) + FirstSnapshots(c)]
    /\ dropped = [c \in Categories \cup SnapshotTypes |-> 0]
    /\ posts = 0 /\ gets = 0 /\ autoSubmitStarts = 0 /\ disqBy = 0
    /\ cameraWarnings = 0 /\ cameraDetections = 0
    /\ dialogs = {} /\ cleanups = 0
    /\ viewer = NoViewer

ExitInit == \E k \in 0..(maxFullscreenExits - 1) : AfterExits(k)

\* the fullscreen engine of such a session
ExitNext ==
    \/ FullscreenExit
    \/ FullscreenEnter
    \/ \E i \in TaskIds : FsStep(i)
    \/ PageUnloads

ExitSpec == ExitInit /\ [][ExitNext]_vars

\* ---- a fullscreen exit after the disqualification ----
\* the document leaves fullscreen in this step
ExitEvent == docFullscreen /\ ~docFullscreen'

\* C34: once isDisqualified is true a later fullscreen exit changes nothing:
\* fullscreenExitCount and fullscreenRetryAttempts keep their values, no
\* handler is started, so no screenshot is requested, nothing is logged, no
\* alert is shown, no restore is attempted and no submission is started.
C34_ExitAfterDisqualificationIgnored ==
    [][ (isDisqualified /\ ExitEvent)
           => /\ fullscreenExitCount' = fullscreenExitCount
              /\ fullscreenRetryAttempts' = fullscreenRetryAttempts
              /\ UNCHANGED <<tasks, nTasks, logCount>>
              /\ UNCHANGED <<trig, captures, uploads, lastEventScreenshot>>
              /\ UNCHANGED <<autoSubmitStarts, posts, gets, dialogs>>
              /\ UNCHANGED <<isDisqualified, disqBy, pointerEvents>> ]_vars

\* the candidate is disqualified, the handlers still listen and the document
\* is in fullscreen once more: its next exit is the one the guard ignores
C34_Witness ==
    /\ isDisqualified /\ fullscreenExitCount >= maxFullscreenExits
    /\ listening /\ Alive /\ docFullscreen
    /\ \E i \in FullscreenHandlers : tasks[i].pc \in SubmitPcs

\* ---- the end of the exam ----
\* cleanup() called on a session that is in fullscreen, and the fullscreen
\* engine around it
EndNext ==
    \/ Cleanup
    \/ FullscreenExit
    \/ FullscreenEnter
    \/ \E i \in TaskIds : FsStep(i)
    \/ PageUnloads

EndSpec == ExitInit /\ [][EndNext]_vars

\* the handlers that are in restoreFullscreenWithRetry
RestoreStarted == {i \in FullscreenHandlers : tasks[i].pc \in RestorePcs}

\* C35: after cleanup() has run the exit from fullscreen that it requested
\* is not counted in fullscreenExitCount, and from then on no restore attempt
\* and no forced submission is started.
C35_NothingCountedAfterCleanup ==
    [][ /\ (cleanups > 0 /\ exitPending /\ ExitEvent)
              => fullscreenExitCount' = fullscreenExitCount
        /\ cleanups > 0
              => /\ autoSubmitStarts' = autoSubmitStarts
                 /\ RestoreStarted' \subseteq RestoreStarted ]_vars

\* ---- the return of the focus ----
\* the blurs of the window that a focus has followed
BlursEnded == trig["window_blur"].n - (IF docFocused THEN 0 ELSE 1)

\* C36: every blur of the window that a focus follows has produced exactly
\* one window_focus_returned log, also when the focus came while the blur
\* handler was waiting for its screenshot or its log; and once the window has
\* the focus, the tab is visible and every handler has returned,
\* windowHasFocus is true.
C36_OneReturnLogPerBlur ==
    /\ logCount["window_focus_returned"] = BlursEnded
    /\ (docFocused /\ ~docHidden /\ Suspended = {}) => windowHasFocus

\* ---- the four registered change events (part_003:1020-1032) ----
\* the handler of the latest exit is at its first await and no time has
\* passed since it was called
ExitJustHandled ==
    /\ trig["fullscreen_exit"].n > 0 /\ trig["fullscreen_exit"].at = now
    /\ \E i \in FullscreenHandlers :
          /\ tasks[i].ord = fullscreenExitCount
          /\ tasks[i].pc \in {"cap_render", "log"}

\* the browser fires another of the registered events (fullscreenchange,
\* mozfullscreenchange, webkitfullscreenchange, MSFullscreenChange) for the
\* exit it has just reported: the listener bound to that name runs the same
\* handler up to its first await
FullscreenChangeAgain ==
    /\ Alive /\ listening /\ ~docFullscreen /\ ExitJustHandled
    /\ IF ExitProcessed(isDisqualified)
       THEN /\ CanDispatch
            /\ fullscreenExitCount' = Increment(fullscreenExitCount)
            /\ fullscreenRetryAttempts' = 0
            /\ nTasks' = nTasks + 1
            /\ CallCapture(nTasks + 1,
                   [NoTask EXCEPT !.kind = "fullscreen",
                                  !.ord = Increment(fullscreenExitCount),
                                  !.log = "fullscreen_exit"],
                   "fullscreen_exit")
       ELSE UNCHANGED <<fullscreenExitCount, fullscreenRetryAttempts, capVars,
                        taskVars>>
    /\ event' = NoEvent
    /\ UNCHANGED <<camVars, timerVars, initVars, viewer, isDisqualified, pointerEvents,
                   disqBy, autoSubmitStarts, posts, gets, counterVars,
                   focusVars, devToolsWarningShown, envVars>>

ChangeNext ==
    \/ FullscreenExit
    \/ FullscreenChangeAgain
    \/ FullscreenEnter
    \/ \E i \in TaskIds : FsStep(i)
    \/ PageUnloads

ChangeSpec == ExitInit /\ [][ChangeNext]_vars

\* C37: fullscreenExitCount changes only in the turn in which the document
\* leaves fullscreen, and there by exactly one, however many of the four
\* registered change events the browser fires for that exit.
C37_OneCountPerExit ==
    [][ fullscreenExitCount' # fullscreenExitCount
           => /\ ExitEvent
              /\ fullscreenExitCount' = fullscreenExitCount + 1 ]_vars

\* ---- the DICOM viewer: zoom with the wheel ----
sessionVars == <<camVars, timerVars, initVars, fsVars, lockVars, capVars,
                 envVars, taskVars>>

\* viewport.scale before the first wheel event: 1.0 in the native canvas
\* (part_001:423), the scale cornerstone gave the viewport elsewhere
InitialScales(impl) ==
    IF impl = "part_001_native" THEN {10} ELSE {MinScale, 10, MaxScale}

WheelInit ==
    /\ Constructed
    /\ \E impl \in Viewers : \E s \in InitialScales(impl) :
          viewer = [NoViewer EXCEPT !.impl = impl, !.scale = s]

\* a wheel event on the canvas
Wheel(deltaY) ==
    /\ viewer.impl \in Viewers
    /\ LET s == Zoomed(viewer.impl, viewer.scale, WheelDelta(deltaY)) IN
          /\ s >= MinScale - MaxOvershoot /\ s <= MaxScale + MaxOvershoot
          /\ viewer' = [viewer EXCEPT !.scale = s]
    /\ UNCHANGED sessionVars

WheelNext == \E deltaY \in {-1, 0, 1} : Wheel(deltaY)

WheelSpec == WheelInit /\ [][WheelNext]_vars

\* C38: in every DICOMViewer the scale of the viewport stays within
\* [0.1, 10] under any sequence of wheel events.
C38_ScaleWithinLimits ==
    viewer.impl \in Viewers
       => viewer.scale >= MinScale /\ viewer.scale <= MaxScale

\* what holds: the three listeners that clamp keep the scale within limits
C38_ClampedScaleWithinLimits ==
    viewer.impl \in Viewers \ {"part_002"}
       => viewer.scale >= MinScale /\ viewer.scale <= MaxScale

\* ---- the DICOM viewer: the hotspot hit test ----
Regions == [x : 0..(MaxCoord - 1), y : 0..(MaxCoord - 1),
            width : 0..1, height : 0..1]

RegionLists == UNION {[1..n -> Regions] : n \in 0..MaxRegions}

Points == (0..MaxCoord) \X (0..MaxCoord)

HitInit ==
    /\ Constructed
    /\ \E impl \in Viewers : \E regions \in RegionLists :
          viewer = [NoViewer EXCEPT !.impl = impl, !.scale = 10,
                                    !.hotspotRegions = regions]

\* a click whose image coordinates are coords: the hit test of handleClick
HotspotClick(coords) ==
    /\ viewer.impl \in Viewers
    /\ viewer' = [viewer EXCEPT
                    !.clicked = coords,
                    !.hit = CheckHotspotHit(viewer.hotspotRegions, coords)]
    /\ UNCHANGED sessionVars

HitNext == \E coords \in Points : HotspotClick(coords)

HitSpec == HitInit /\ [][HitNext]_vars

\* the clicked point lies in the rectangle of region i, edges included
InRegion(i) ==
    LET r == viewer.hotspotRegions[i]
        p == viewer.clicked
    IN  /\ r.x <= p[1] /\ p[1] <= r.x + r.width
        /\ r.y <= p[2] /\ p[2] <= r.y + r.height

\* C39: the hit test returns the first region, in list order, whose
\* rectangle [x, x+width] by [y, y+height] contains the clicked point, edges
\* included, and null (0) when no region contains it or the list is empty.
C39_FirstRegionHit ==
    viewer.clicked # <<>> =>
       LET n == Len(viewer.hotspotRegions) IN
       /\ viewer.hit \in 0..n
       /\ viewer.hit = 0 <=> \A i \in 1..n : ~InRegion(i)
       /\ viewer.hit # 0
             => /\ InRegion(viewer.hit)
                /\ \A j \in 1..(viewer.hit - 1) : ~InRegion(j)

\* two different regions contain the clicked point, which lies on the far
\* edges of the first: the first is returned
C39_Witness ==
    /\ viewer.clicked # <<>> /\ Len(viewer.hotspotRegions) = 2
    /\ viewer.hotspotRegions[1] # viewer.hotspotRegions[2]
    /\ InRegion(1) /\ InRegion(2) /\ viewer.hit = 1
    /\ viewer.clicked[1] = viewer.hotspotRegions[1].x
                              + viewer.hotspotRegions[1].width
    /\ viewer.clicked[2] = viewer.hotspotRegions[1].y
                              + viewer.hotspotRegions[1].height

\* the list is empty and the click returns null
C39_EmptyListWitness ==
    /\ viewer.clicked # <<>> /\ viewer.hotspotRegions = <<>> /\ viewer.hit = 0
====
